---- MODULE Spec2Model ----
(***************************************************************************)
(* A model of the HLS proxy warmer (bariiss/hls-proxy-warm).               *)
(*                                                                         *)
(* One HLSWarmer is shared by every thread of the program.  In single-pass *)
(* mode runOnceMode calls WarmM3U8 on each playlist in turn; in daemon     *)
(* mode RunDaemon starts one tick loop per playlist and every tick that    *)
(* wins the activity flag runs warmStreamOnce on a goroutine of its own.   *)
(* Both paths hand their fetch set to warmSegments, a pool of maxWorkers   *)
(* goroutines around two buffered channels.                                *)
(*                                                                         *)
(* A goroutine that runs a warm cycle occupies a slot; a slot holds the    *)
(* locals of the cycle (cyc) and the channels and workers of its           *)
(* warmSegments call (pool).                                               *)
(***************************************************************************)
EXTENDS Integers, Sequences, FiniteSets

VARIABLES
  daemonMode,     \* HLSWarmer.daemonMode: which of runDaemonMode / runOnceMode main calls
  maxWorkers,     \* HLSWarmer.maxWorkers
  rewarmLast,     \* HLSWarmer.rewarmLast
  now,            \* the wall clock read by time.Now / time.Since
  processedURLs,  \* HLSWarmer.processedURLs: segment URL -> time of the last stamp, or Never
  streamActive,   \* HLSWarmer.streamActive: the playlists whose flag is set
  ctxDone,        \* the daemon's context has been cancelled
  rd,             \* RunDaemon: [pc, i]
  loops,          \* warmStreamContinuously, one per position of m3u8URLs: its pc
  cyc,            \* per slot: the locals of the warm cycle run by that goroutine
  pool,           \* per slot: the channels, wait group and workers of warmSegments
  once,           \* runOnceMode: [i, result]: next playlist, last value WarmM3U8 returned
  m3u8URLs,       \* flag.Args(): the playlists given on the command line
  referer,        \* HLSWarmer.referer: the Referer header of every request, "" for none
  origin,         \* HLSWarmer.origin: the Origin header of every request, "" for none
  mu,             \* HLSWarmer.mu: the thread that holds it, or Free
  streamMu,       \* HLSWarmer.streamMu: the thread that holds it, or Free
  call            \* a call of detectCacheHit or parseM3U8 on its own: [fn, arg, ret],
                  \* ret the values returned, none while the call runs

vars == <<daemonMode, maxWorkers, rewarmLast, now, processedURLs, streamActive,
          ctxDone, rd, loops, cyc, pool, once, m3u8URLs, referer, origin,
          mu, streamMu, call>>

config == <<daemonMode, maxWorkers, rewarmLast, m3u8URLs>>

headers == <<referer, origin>>

locks == <<mu, streamMu>>

----------------------------------------------------------------------------
(* Bounds and inputs                                                       *)

MaxTime == 3        \* the clock stops advancing here
NumSlots == 2       \* goroutines that can run a warm cycle at the same time
MaxWorkers == 2     \* largest worker count tried
MaxLen == 2         \* longest segment list of the playlist "pC"
MaxHeaders == 2     \* most headers set in a response given to detectCacheHit
MaxLines == 3       \* most lines of a playlist body given to parseM3U8

Never == -1         \* no ledger entry

\* Config.TTL as passed to NewHLSWarmer, in clock ticks.
processedTTL == 2

Segs == {"s1", "s2"}

Playlists == {"pA", "pB", "pC", "pD"}

\* Every list of at most n segments.
RECURSIVE SegLists(_)
SegLists(n) ==
  IF n = 0 THEN {<<>>}
  ELSE LET shorter == SegLists(n - 1) IN
         shorter \cup {Append(l, s) : l \in {x \in shorter : Len(x) = n - 1}, s \in Segs}

\* What a successful parseM3U8 of a playlist can return at some moment: the
\* playlist is live, so its segment list differs from fetch to fetch.
Bodies(p) ==
  CASE p = "pA" -> {<<>>, <<"s1">>, <<"s1", "s2">>, <<"s1", "s1">>}
    [] p = "pB" -> {<<"s2">>}
    [] p = "pC" -> SegLists(MaxLen)
    [] p = "pD" -> {<<"s2">>}

Slots == 1..NumSlots
Workers == 1..MaxWorkers

\* The scheme and the host of a playlist URL of the command line, as
\* url.Parse splits it.
PlaylistURL(p) ==
  CASE p = "pA" -> [Scheme |-> "https", Host |-> "a.example"]
    [] p = "pB" -> [Scheme |-> "https", Host |-> "b.example"]
    [] p = "pC" -> [Scheme |-> "https", Host |-> "c.example"]
    [] p = "pD" -> [Scheme |-> "https", Host |-> "d.example"]

\* A header value is the sequence of the pieces it is concatenated from; the
\* empty string is the empty sequence.
NoHeader == <<>>

\* -referer / -origin as given on the command line.
ConfiguredHeader == <<"https", "://", "player.example">>

\* extractBaseURL: u.Scheme + "://" + u.Host of the parsed URL.
extractBaseURL(m3u8URL) ==
  <<PlaylistURL(m3u8URL).Scheme, "://", PlaylistURL(m3u8URL).Host>>

\* No thread holds the mutex.
Free == <<>>

\* No call of a function on its own is under way.
NoCall == [fn |-> "none", arg |-> <<>>, ret |-> <<>>]

----------------------------------------------------------------------------
(* Helpers on sequences                                                    *)

Range(s) == {s[i] : i \in 1..Len(s)}

Count(s, x) == Cardinality({i \in 1..Len(s) : s[i] = x})

Min(a, b) == IF a < b THEN a ELSE b

----------------------------------------------------------------------------
(* Records                                                                 *)

\* CacheStatus (config.go): Error is "nil" or "failed", which stands for the
\* cleaned message of the cause.
CacheStatus(u, e, h) == [URL |-> u, Error |-> e, Hit |-> h]

\* warmSegment: what it returns for a URL.  makeRequest fails or the body
\* cannot be drained: both returns build the same CacheStatus, with Error
\* set and Hit left false.  Otherwise Hit is detectCacheHit's verdict on the
\* response.
warmSegment(u) ==
  { CacheStatus(u, "failed", FALSE), CacheStatus(u, "nil", TRUE), CacheStatus(u, "nil", FALSE) }

NoCycle ==
  [pc |-> "none", stream |-> "", segments |-> <<>>, newSegments |-> <<>>,
   nNew |-> 0, reqs |-> <<>>, allResults |-> <<>>, report |-> "none",
   hitCount |-> 0, errorCount |-> 0, i |-> 0]

NoWorker == [pc |-> "off", url |-> "", res |-> CacheStatus("", "nil", FALSE)]

NoPool ==
  [jobs |-> <<>>, jobsClosed |-> FALSE, results |-> <<>>, resultsClosed |-> FALSE,
   cap |-> 0, sent |-> 0, wg |-> 0, closer |-> "off", w |-> [k \in Workers |-> NoWorker]]

NoResult == [err |-> "none", TotalFiles |-> 0, CachedFiles |-> 0, Errors |-> <<>>, Details |-> <<>>]

----------------------------------------------------------------------------
(* detectCacheHit (http.go)                                                *)

\* A string is the sequence of its characters.
UpperCase == <<"A", "B", "C", "D", "E", "F", "G", "H", "I", "J", "K", "L", "M",
               "N", "O", "P", "Q", "R", "S", "T", "U", "V", "W", "X", "Y", "Z">>
LowerCase == <<"a", "b", "c", "d", "e", "f", "g", "h", "i", "j", "k", "l", "m",
               "n", "o", "p", "q", "r", "s", "t", "u", "v", "w", "x", "y", "z">>

\* strings.ToLower, on the ASCII strings of the model.
ToLower(str) ==
  [i \in 1..Len(str) |->
     IF \E j \in 1..Len(UpperCase) : UpperCase[j] = str[i]
       THEN LowerCase[CHOOSE j \in 1..Len(UpperCase) : UpperCase[j] = str[i]]
       ELSE str[i]]

\* strings.Contains.
Contains(str, substr) ==
  \E i \in 0..(Len(str) - Len(substr)) : SubSeq(str, i + 1, i + Len(substr)) = substr

\* The headers detectCacheHit reads, in its order, and a header it does not read.
cacheHeaders ==
  <<"X-Cache", "X-Cache-Status", "X-Served-By", "CF-Cache-Status",
    "X-Fastly-Cache", "X-Varnish-Cache", "Age">>
HeaderNames == Range(cacheHeaders) \cup {"Server"}

hitIndicators ==
  << <<"h", "i", "t">>, <<"H", "I", "T">>,
     <<"c", "a", "c", "h", "e", "d">>, <<"C", "A", "C", "H", "E", "D">> >>

\* Values a header of a response can carry.
HeaderValues ==
  { <<"H", "I", "T">>, <<"M", "I", "S", "S">>, <<"C", "a", "c", "h", "e", "d">>,
    <<"m", "-", "h", "i", "T", "-", "1">>, <<"0">>, <<"1", "2", "0">> }

\* resp.Header.Get(header) for every header name: the value of the header,
\* or the empty string when the response does not carry it.  At most
\* MaxHeaders of the names are set.
Responses ==
  UNION { { [h \in HeaderNames |-> IF h \in set THEN f[h] ELSE <<>>] : f \in [set -> HeaderValues] } :
            set \in {t \in SUBSET HeaderNames : Cardinality(t) <= MaxHeaders} }

\* A detectCacheHit without the test against "0".
detectCacheHit_AnyAge(resp) ==
  \/ \E i \in 1..Len(cacheHeaders) :
       /\ resp[cacheHeaders[i]] # <<>>
       /\ \E j \in 1..Len(hitIndicators) :
            Contains(ToLower(resp[cacheHeaders[i]]), ToLower(hitIndicators[j]))
  \/ resp["Age"] # <<>>

\* detectCacheHit: a header of the list carries one of the indicators, or
\* Age is neither empty nor "0".
detectCacheHit(resp) ==
  \/ \E i \in 1..Len(cacheHeaders) :
       /\ resp[cacheHeaders[i]] # <<>>
       /\ \E j \in 1..Len(hitIndicators) :
            Contains(ToLower(resp[cacheHeaders[i]]), ToLower(hitIndicators[j]))
  \/ resp["Age"] # <<>> /\ resp["Age"] # <<"0">>

\* cacheHit := h.detectCacheHit(resp), called on a response.
DetectCacheHit ==
  /\ call.fn = "detectCacheHit" /\ call.ret = <<>>
  /\ call' = [call EXCEPT !.ret = <<detectCacheHit(call.arg)>>]
  /\ UNCHANGED <<config, headers, locks, now, processedURLs, streamActive, ctxDone,
                 rd, loops, cyc, pool, once>>

----------------------------------------------------------------------------
(* parseM3U8, cleanString and resolveURL (parser, utils.go)                *)

\* The line "#EXTM3U".
ExtM3U ==
  <<"#", "E", "X", "T", "M", "3", "U">>

\* The line " #EXT": a tag after a space.
IndentedTag ==
  <<" ", "#", "E", "X", "T">>

\* The line "seg001.ts".
Seg001 ==
  <<"s", "e", "g", "0", "0", "1", ".", "t", "s">>

\* The line "seg002.ts".
Seg002 ==
  <<"s", "e", "g", "0", "0", "2", ".", "t", "s">>

\* A line of two spaces.
Spaces ==
  <<" ", " ">>

\* The line "a.ts": four characters.
ShortName ==
  <<"a", ".", "t", "s">>

\* The line "a", byte 0x01, ".ts": five bytes, four once cleaned.
ShortWhenClean ==
  <<"a", "SOH", ".", "t", "s">>

\* The line "ab", byte 0x01, ".ts": five characters once cleaned.
LongWhenClean ==
  <<"a", "b", "SOH", ".", "t", "s">>

\* The line "/vod/chunk9": an absolute path.
RootedChunk ==
  <<"/", "v", "o", "d", "/", "c", "h", "u", "n", "k", "9">>

\* The line "https://o.example/x.ts": a full URL.
FullURL ==
  <<"h", "t", "t", "p", "s", ":", "/", "/", "o", ".", "e", "x", "a", "m",
    "p", "l", "e", "/", "x", ".", "t", "s">>

\* The line "%zz.ts": url.Parse refuses its escape.
BadEscape ==
  <<"%", "z", "z", ".", "t", "s">>

\* "http://"
HttpPrefix ==
  <<"h", "t", "t", "p", ":", "/", "/">>

\* "https://"
HttpsPrefix ==
  <<"h", "t", "t", "p", "s", ":", "/", "/">>

\* "seg"
SegWord ==
  <<"s", "e", "g">>

\* "chunk"
ChunkWord ==
  <<"c", "h", "u", "n", "k">>

\* The lines a playlist body is made of; the empty line is among them.
PlaylistLines ==
  { <<>>, ExtM3U, IndentedTag, Seg001, Seg002, Spaces, ShortName, ShortWhenClean,
    LongWhenClean, RootedChunk, FullURL, BadEscape }

\* Every body of at most n lines.
RECURSIVE PlaylistBodies(_)
PlaylistBodies(n) ==
  IF n = 0 THEN {<<>>}
  ELSE LET shorter == PlaylistBodies(n - 1) IN
         shorter \cup {Append(b, l) : b \in {x \in shorter : Len(x) = n - 1}, l \in PlaylistLines}

\* url.Parse("https://cdn.example/live/index.m3u8").
CdnLiveIndex ==
  [Scheme |-> <<"h", "t", "t", "p", "s">>,
   Host |-> <<"c", "d", "n", ".", "e", "x", "a", "m", "p", "l", "e">>,
   Path |-> <<"/", "l", "i", "v", "e", "/", "i", "n", "d", "e", "x", ".", "m", "3", "u", "8">>]

\* The bytes cleanString removes: 0x00, and every rune outside 32..126 that
\* is not tab, newline or carriage return.  A byte without a printable form
\* is written by its name.
NonPrintable == {"NUL", "SOH", "DEL"}

\* The white space strings.TrimSpace removes at both ends.
WhiteSpace == {" ", "\t"}

\* strings.TrimSpace.
RECURSIVE TrimSpace(_)
TrimSpace(str) ==
  IF str = <<>> THEN str
  ELSE IF Head(str) \in WhiteSpace THEN TrimSpace(Tail(str))
  ELSE IF str[Len(str)] \in WhiteSpace THEN TrimSpace(SubSeq(str, 1, Len(str) - 1))
  ELSE str

\* strings.HasPrefix.
HasPrefix(str, prefix) ==
  Len(str) >= Len(prefix) /\ SubSeq(str, 1, Len(prefix)) = prefix

\* cleanString: the string without the bytes it removes.
RECURSIVE cleanString(_)
cleanString(str) ==
  IF str = <<>> THEN str
  ELSE IF Head(str) \in NonPrintable THEN cleanString(Tail(str))
  ELSE <<Head(str)>> \o cleanString(Tail(str))

HexDigits ==
  {"0", "1", "2", "3", "4", "5", "6", "7", "8", "9",
   "a", "b", "c", "d", "e", "f", "A", "B", "C", "D", "E", "F"}

\* url.Parse returns an error: of its causes, the one the lines of the
\* model can show, a "%" that does not start an escape of two hex digits.
ParseError(str) ==
  \E i \in 1..Len(str) :
    /\ str[i] = "%"
    /\ ~(i + 2 <= Len(str) /\ str[i + 1] \in HexDigits /\ str[i + 2] \in HexDigits)

\* The path up to and including its last "/".
RECURSIVE DirOf(_)
DirOf(path) ==
  IF path = <<>> \/ path[Len(path)] = "/" THEN path
  ELSE DirOf(SubSeq(path, 1, Len(path) - 1))

\* baseURL.ResolveReference(ref).String() for a reference that is a path,
\* absolute or relative, without dot segments, query or fragment.
ResolveReference(baseURL, ref) ==
  baseURL.Scheme \o <<":", "/", "/">> \o baseURL.Host
    \o (IF HasPrefix(ref, <<"/">>) THEN ref ELSE DirOf(baseURL.Path) \o ref)

\* resolveURL.
resolveURL(baseURL, segment) ==
  IF HasPrefix(segment, HttpPrefix) \/ HasPrefix(segment, HttpsPrefix) THEN segment
  ELSE IF ParseError(segment) THEN segment
  ELSE ResolveReference(baseURL, segment)

\* One turn of parseM3U8's loop: the segments with what the line adds.
ScanLine(baseURL, text, segments) ==
  LET line == TrimSpace(text)
      cleanLine == cleanString(line)
      segmentURL == resolveURL(baseURL, cleanLine)
  IN IF line = <<>> \/ HasPrefix(line, <<"#">>) THEN segments
     ELSE IF Len(cleanLine) = 0 \/ \E i \in 1..Len(cleanLine) : cleanLine[i] \in {"NUL", "SOH"}
       THEN segments
     ELSE IF Len(cleanLine) < 5 THEN segments
     ELSE IF ParseError(segmentURL) THEN segments
     ELSE IF ~Contains(segmentURL, <<".">>) /\ ~Contains(segmentURL, SegWord)
             /\ ~Contains(segmentURL, ChunkWord)
       THEN segments
     ELSE Append(segments, segmentURL)

\* A parseM3U8 that tests the length of the line before cleaning it.
RECURSIVE parseM3U8_RawLength(_, _, _, _)
parseM3U8_RawLength(baseURL, body, i, segments) ==
  IF i > Len(body) THEN segments
  ELSE parseM3U8_RawLength(baseURL, body, i + 1,
         IF Len(TrimSpace(body[i])) < 5 THEN segments
         ELSE IF Len(cleanString(TrimSpace(body[i]))) < 5
           THEN Append(segments, resolveURL(baseURL, cleanString(TrimSpace(body[i]))))
         ELSE ScanLine(baseURL, body[i], segments))

\* parseM3U8 from its loop on: the scanner's lines body[i..] in turn.
RECURSIVE parseM3U8(_, _, _, _)
parseM3U8(baseURL, body, i, segments) ==
  IF i > Len(body) THEN segments
  ELSE parseM3U8(baseURL, body, i + 1, ScanLine(baseURL, body[i], segments))

\* parseM3U8 returns the segments of the body it has read, and no error.
ParseM3U8 ==
  /\ call.fn = "parseM3U8" /\ call.ret = <<>>
  /\ call' = [call EXCEPT !.ret = <<parseM3U8(call.arg.m3u8URL, call.arg.body, 1, <<>>), "nil">>]
  /\ UNCHANGED <<config, headers, locks, now, processedURLs, streamActive, ctxDone,
                 rd, loops, cyc, pool, once>>

\* parseM3U8 returns nil and the error of makeRequest or of io.ReadAll.
ParseM3U8Error ==
  /\ call.fn = "parseM3U8" /\ call.ret = <<>>
  /\ call' = [call EXCEPT !.ret = << <<>>, "error">>]
  /\ UNCHANGED <<config, headers, locks, now, processedURLs, streamActive, ctxDone,
                 rd, loops, cyc, pool, once>>

----------------------------------------------------------------------------
(* The activity flags (warmer.go)                                          *)

\* A beginStreamProcessing that never refuses.
beginStreamProcessing_NoCheck(stream) == TRUE

\* beginStreamProcessing's verdict, read under streamMu: TRUE when the caller
\* may run a cycle for the stream.
beginStreamProcessing(stream) == stream \notin streamActive

\* endStreamProcessing: delete(h.streamActive, stream), under streamMu.
endStreamProcessing(stream) == streamActive \ {stream}

\* The slot a new goroutine takes.
FreeSlot(c) == cyc[c].pc = "none" /\ \A d \in Slots : d < c => cyc[d].pc # "none"

\* A scheduleStreamWarm that starts its goroutine whatever the verdict.
scheduleStreamWarm_Always(m3u8URL) ==
  /\ streamActive' = streamActive \cup {m3u8URL}
  /\ \E c \in Slots :
       /\ FreeSlot(c)
       /\ cyc' = [cyc EXCEPT ![c] = [NoCycle EXCEPT !.pc = "parse", !.stream = m3u8URL]]

\* scheduleStreamWarm: begin the stream and start the goroutine that runs
\* warmStreamOnce (whose first statement sends the playlist request), or
\* return at once when the stream is already being warmed.
scheduleStreamWarm(m3u8URL) ==
  IF beginStreamProcessing(m3u8URL)
    THEN /\ streamActive' = streamActive \cup {m3u8URL}
         /\ \E c \in Slots :
              /\ FreeSlot(c)
              /\ cyc' = [cyc EXCEPT ![c] = [NoCycle EXCEPT !.pc = "parse", !.stream = m3u8URL]]
    ELSE UNCHANGED <<streamActive, cyc>>

----------------------------------------------------------------------------
(* Daemon mode: RunDaemon and warmStreamContinuously                       *)

\* RunDaemon, the loop over m3u8URLs: h.scheduleStreamWarm(m3u8URL).
RunDaemonSchedule ==
  /\ daemonMode /\ rd.pc = "schedule"
  /\ scheduleStreamWarm(m3u8URLs[rd.i])
  /\ rd' = [rd EXCEPT !.pc = "go"]
  /\ UNCHANGED <<config, headers, locks, call, now, processedURLs, ctxDone, loops, pool, once>>

\* RunDaemon: go h.warmStreamContinuously(ctx, m3u8URL), then the next URL or
\* the wait for the context.
RunDaemonGo ==
  /\ daemonMode /\ rd.pc = "go"
  /\ loops' = [loops EXCEPT ![rd.i] = "select"]
  /\ rd' = IF rd.i < Len(m3u8URLs) THEN [pc |-> "schedule", i |-> rd.i + 1]
                                   ELSE [pc |-> "wait", i |-> rd.i]
  /\ UNCHANGED <<config, headers, locks, call, now, processedURLs, streamActive, ctxDone, cyc, pool, once>>

\* RunDaemon: <-ctx.Done() and return ctx.Err().
RunDaemonReturn ==
  /\ daemonMode /\ rd.pc = "wait" /\ ctxDone
  /\ rd' = [rd EXCEPT !.pc = "returned"]
  /\ UNCHANGED <<config, headers, locks, call, now, processedURLs, streamActive, ctxDone, loops, cyc, pool, once>>

\* The signal handler of runDaemonMode: cancel().
Cancel ==
  /\ daemonMode /\ ~ctxDone /\ rd.pc # "returned"
  /\ ctxDone' = TRUE
  /\ UNCHANGED <<config, headers, locks, call, now, processedURLs, streamActive, rd, loops, cyc, pool, once>>

\* warmStreamContinuously: the select takes case <-ticker.C.  The ticker
\* keeps firing after the context is cancelled, and a select with both
\* cases ready takes either.
LoopTick(i) ==
  /\ daemonMode /\ loops[i] = "select"
  /\ loops' = [loops EXCEPT ![i] = "tick"]
  /\ UNCHANGED <<config, headers, locks, call, now, processedURLs, streamActive, ctxDone, rd, cyc, pool, once>>

\* warmStreamContinuously: h.scheduleStreamWarm(m3u8URL) of the tick case.
LoopSchedule(i) ==
  /\ daemonMode /\ loops[i] = "tick"
  /\ scheduleStreamWarm(m3u8URLs[i])
  /\ loops' = [loops EXCEPT ![i] = "select"]
  /\ UNCHANGED <<config, headers, locks, call, now, processedURLs, ctxDone, rd, pool, once>>

\* A warmStreamContinuously that clears the flag of its playlist when it
\* leaves on cancellation.
LoopExit_ClearFlag(i) ==
  /\ daemonMode /\ loops[i] = "select" /\ ctxDone
  /\ loops' = [loops EXCEPT ![i] = "exited"]
  /\ streamActive' = endStreamProcessing(m3u8URLs[i])
  /\ UNCHANGED <<config, headers, locks, call, now, processedURLs, ctxDone, rd, cyc, pool, once>>

\* warmStreamContinuously: the select takes case <-ctx.Done() and returns.
LoopExit(i) ==
  /\ daemonMode /\ loops[i] = "select" /\ ctxDone
  /\ loops' = [loops EXCEPT ![i] = "exited"]
  /\ UNCHANGED <<config, headers, locks, call, now, processedURLs, streamActive, ctxDone, rd, cyc, pool, once>>

\* runDaemonMode returns after RunDaemon and main after it: the process ends
\* and every goroutine still running ends with it, wherever it is.
MainReturn ==
  /\ daemonMode /\ rd.pc = "returned"
  /\ rd' = [rd EXCEPT !.pc = "exited"]
  /\ loops' = [i \in DOMAIN loops |-> IF loops[i] = "exited" THEN "exited" ELSE "killed"]
  /\ cyc' = [c \in DOMAIN cyc |->
               IF cyc[c].pc = "none" THEN cyc[c] ELSE [cyc[c] EXCEPT !.pc = "killed"]]
  /\ pool' = [c \in DOMAIN pool |->
                [pool[c] EXCEPT !.closer = IF @ = "wait" THEN "killed" ELSE @,
                                !.w = [k \in DOMAIN @ |->
                                         IF @[k].pc \in {"off", "done"} THEN @[k]
                                         ELSE [@[k] EXCEPT !.pc = "killed"]]]]
  /\ UNCHANGED <<config, headers, locks, call, now, processedURLs, streamActive, ctxDone, once>>

\* Time passes; only the daemon reads the clock.
Advance ==
  /\ daemonMode /\ now < MaxTime
  /\ now' = now + 1
  /\ UNCHANGED <<config, headers, locks, call, processedURLs, streamActive, ctxDone, rd, loops, cyc, pool, once>>

----------------------------------------------------------------------------
(* warmStreamOnce (daemon mode)                                            *)

\* An expiry test that already passes at exactly the TTL.
IsNew_AtTTL(ledger, segment, t) ==
  ledger[segment] = Never \/ t - ledger[segment] >= processedTTL

\* The expiry test of the dedup ledger: !seen || time.Since(last) > h.processedTTL.
IsNew(ledger, segment, t) ==
  ledger[segment] = Never \/ t - ledger[segment] > processedTTL

\* A filter loop that, when done, drops the entries of the segments that
\* have left the playlist.
RECURSIVE FilterNew_Prune(_, _, _, _, _)
FilterNew_Prune(segments, i, ledger, newSegments, t) ==
  IF i > Len(segments)
    THEN [newSegments |-> newSegments,
          ledger |-> [s \in DOMAIN ledger |-> IF s \in Range(segments) THEN ledger[s] ELSE Never]]
  ELSE IF IsNew(ledger, segments[i], t)
    THEN FilterNew_Prune(segments, i + 1, [ledger EXCEPT ![segments[i]] = t],
                         Append(newSegments, segments[i]), t)
    ELSE FilterNew_Prune(segments, i + 1, ledger, newSegments, t)

\* A filter loop that selects without stamping.
RECURSIVE FilterNew_NoStamp(_, _, _, _, _)
FilterNew_NoStamp(segments, i, ledger, newSegments, t) ==
  IF i > Len(segments) THEN [newSegments |-> newSegments, ledger |-> ledger]
  ELSE IF IsNew(ledger, segments[i], t)
    THEN FilterNew_NoStamp(segments, i + 1, ledger, Append(newSegments, segments[i]), t)
    ELSE FilterNew_NoStamp(segments, i + 1, ledger, newSegments, t)

\* The filter loop over segments[i..], under h.mu: a segment that passes
\* IsNew is appended to newSegments and stamped at once, so a later
\* occurrence of the same URL in the list sees the new stamp.
RECURSIVE FilterNew(_, _, _, _, _)
FilterNew(segments, i, ledger, newSegments, t) ==
  IF i > Len(segments) THEN [newSegments |-> newSegments, ledger |-> ledger]
  ELSE IF IsNew(ledger, segments[i], t)
    THEN FilterNew(segments, i + 1, [ledger EXCEPT ![segments[i]] = t],
                   Append(newSegments, segments[i]), t)
    ELSE FilterNew(segments, i + 1, ledger, newSegments, t)

\* A rewarm window that starts one position late.
RewarmStart_Late(segments) ==
  IF Len(segments) > rewarmLast THEN Len(segments) - rewarmLast + 2 ELSE 2

\* start of the rewarm window: 0-based in the source, 1-based here.
RewarmStart(segments) ==
  IF Len(segments) > rewarmLast THEN Len(segments) - rewarmLast + 1 ELSE 1

\* A rewarm loop that appends every segment of the window, included or not.
RECURSIVE RewarmTail_NoIncluded(_, _, _, _, _)
RewarmTail_NoIncluded(segments, i, ledger, newSegments, t) ==
  IF i > Len(segments) THEN [newSegments |-> newSegments, ledger |-> ledger]
  ELSE RewarmTail_NoIncluded(segments, i + 1, [ledger EXCEPT ![segments[i]] = t],
                             Append(newSegments, segments[i]), t)

\* The rewarm loop over segments[i..], under h.mu: a segment not yet included
\* is appended; every segment of the window is stamped.
RECURSIVE RewarmTail(_, _, _, _, _)
RewarmTail(segments, i, ledger, newSegments, t) ==
  IF i > Len(segments) THEN [newSegments |-> newSegments, ledger |-> ledger]
  ELSE RewarmTail(segments, i + 1, [ledger EXCEPT ![segments[i]] = t],
                  IF segments[i] \in Range(newSegments) THEN newSegments
                  ELSE Append(newSegments, segments[i]), t)

AtPc(c, pc) == cyc[c].pc = pc

\* A warmStreamOnce that logs the parse error and carries on with the segments
\* parseM3U8 returned beside it.
ParseFail_CarryOn(c) ==
  /\ daemonMode /\ AtPc(c, "parse")
  /\ \E body \in Bodies(cyc[c].stream) :
       cyc' = [cyc EXCEPT ![c].pc = "filter", ![c].segments = body,
                             ![c].report = "parse error"]
  /\ UNCHANGED <<config, headers, locks, call, now, processedURLs, streamActive, ctxDone, rd, loops, pool, once>>

\* h.parseM3U8 returns an error: log it and return.
ParseFail(c) ==
  /\ daemonMode /\ AtPc(c, "parse")
  /\ cyc' = [cyc EXCEPT ![c].pc = "end", ![c].report = "parse error"]
  /\ UNCHANGED <<config, headers, locks, call, now, processedURLs, streamActive, ctxDone, rd, loops, pool, once>>

\* h.parseM3U8 returns the playlist's current segments.
ParseOk(c) ==
  /\ daemonMode /\ AtPc(c, "parse")
  /\ \E body \in Bodies(cyc[c].stream) :
       cyc' = [cyc EXCEPT ![c].pc = "filter", ![c].segments = body]
  /\ UNCHANGED <<config, headers, locks, call, now, processedURLs, streamActive, ctxDone, rd, loops, pool, once>>

\* Filter out already processed segments (h.mu held for the whole loop).
Filter(c) ==
  /\ AtPc(c, "filter")
  /\ LET r == FilterNew(cyc[c].segments, 1, processedURLs, <<>>, now) IN
       /\ processedURLs' = r.ledger
       /\ cyc' = [cyc EXCEPT ![c].newSegments = r.newSegments,
                             ![c].nNew = Len(r.newSegments),
                             ![c].pc = IF rewarmLast > 0 THEN "rewarm" ELSE "check"]
  /\ UNCHANGED <<config, headers, locks, call, now, streamActive, ctxDone, rd, loops, pool, once>>

\* Include the last rewarmLast segments (h.mu held for the whole block).
Rewarm(c) ==
  /\ AtPc(c, "rewarm")
  /\ LET r == RewarmTail(cyc[c].segments, RewarmStart(cyc[c].segments),
                         processedURLs, cyc[c].newSegments, now) IN
       /\ processedURLs' = r.ledger
       /\ cyc' = [cyc EXCEPT ![c].newSegments = r.newSegments, ![c].pc = "check"]
  /\ UNCHANGED <<config, headers, locks, call, now, streamActive, ctxDone, rd, loops, pool, once>>

\* len(newSegments) == 0: report it and return.
NoNewSegments(c) ==
  /\ AtPc(c, "check") /\ Len(cyc[c].newSegments) = 0
  /\ cyc' = [cyc EXCEPT ![c].pc = "end", ![c].report = "no new segments"]
  /\ UNCHANGED <<config, headers, locks, call, now, processedURLs, streamActive, ctxDone, rd, loops, pool, once>>

----------------------------------------------------------------------------
(* warmSegments and its workers (warmer.go)                                *)

\* A warmSegments whose two channels hold one element instead of
\* len(segments).
StartWorkers_SmallBuffers(segments) ==
  [NoPool EXCEPT !.cap = 1,
                 !.wg = maxWorkers,
                 !.w = [k \in Workers |->
                          IF k <= maxWorkers THEN [NoWorker EXCEPT !.pc = "recv"]
                          ELSE NoWorker]]

\* A warmSegments that starts every worker it has room for, whatever maxWorkers.
StartWorkers_Unbounded(segments) ==
  [NoPool EXCEPT !.cap = Len(segments),
                 !.wg = MaxWorkers,
                 !.w = [k \in Workers |-> [NoWorker EXCEPT !.pc = "recv"]]]

\* warmSegments up to the end of the loop that starts the workers: two
\* channels of capacity len(segments) and maxWorkers goroutines, each about
\* to receive from jobs, all counted in the wait group.
StartWorkers(segments) ==
  [NoPool EXCEPT !.cap = Len(segments),
                 !.wg = maxWorkers,
                 !.w = [k \in Workers |->
                          IF k <= maxWorkers THEN [NoWorker EXCEPT !.pc = "recv"]
                          ELSE NoWorker]]

\* A warmStreamOnce that calls warmSegments without looking at the length.
Dispatch_NoCheck(c) ==
  /\ AtPc(c, "check")
  /\ pool' = [pool EXCEPT ![c] = StartWorkers(cyc[c].newSegments)]
  /\ cyc' = [cyc EXCEPT ![c].pc = "send"]
  /\ UNCHANGED <<config, headers, locks, call, now, processedURLs, streamActive, ctxDone, rd, loops, once>>

\* len(newSegments) > 0: results := h.warmSegments(newSegments).
Dispatch(c) ==
  /\ AtPc(c, "check") /\ Len(cyc[c].newSegments) > 0
  /\ pool' = [pool EXCEPT ![c] = StartWorkers(cyc[c].newSegments)]
  /\ cyc' = [cyc EXCEPT ![c].pc = "send"]
  /\ UNCHANGED <<config, headers, locks, call, now, processedURLs, streamActive, ctxDone, rd, loops, once>>

\* jobs <- segment, for the next segment of the list.
SendJob(c) ==
  /\ AtPc(c, "send")
  /\ pool[c].sent < Len(cyc[c].newSegments)
  /\ Len(pool[c].jobs) < pool[c].cap
  /\ pool' = [pool EXCEPT ![c].jobs = Append(@, cyc[c].newSegments[pool[c].sent + 1]),
                          ![c].sent = @ + 1]
  /\ UNCHANGED <<config, headers, locks, call, now, processedURLs, streamActive, ctxDone, rd, loops, cyc, once>>

\* close(jobs), and the goroutine that waits for the workers is started.
CloseJobs(c) ==
  /\ AtPc(c, "send")
  /\ pool[c].sent = Len(cyc[c].newSegments)
  /\ pool' = [pool EXCEPT ![c].jobsClosed = TRUE, ![c].closer = "wait"]
  /\ cyc' = [cyc EXCEPT ![c].pc = "collect"]
  /\ UNCHANGED <<config, headers, locks, call, now, processedURLs, streamActive, ctxDone, rd, loops, once>>

\* worker: the range over jobs yields the next URL and warmSegment sends
\* its request.
WorkerRecv(c, k) ==
  /\ pool[c].w[k].pc = "recv"
  /\ Len(pool[c].jobs) > 0
  /\ pool' = [pool EXCEPT ![c].jobs = Tail(@),
                          ![c].w[k] = [@ EXCEPT !.pc = "fetch", !.url = Head(pool[c].jobs)]]
  /\ cyc' = [cyc EXCEPT ![c].reqs = Append(@, Head(pool[c].jobs))]
  /\ UNCHANGED <<config, headers, locks, call, now, processedURLs, streamActive, ctxDone, rd, loops, once>>

\* A worker that sends the request again when it has failed.
WorkerFetch_Retry(c, k) ==
  /\ pool[c].w[k].pc = "fetch"
  /\ \E res \in warmSegment(pool[c].w[k].url) :
       IF res.Error # "nil"
         THEN /\ cyc' = [cyc EXCEPT ![c].reqs = Append(@, pool[c].w[k].url)]
              /\ pool' = pool
         ELSE /\ pool' = [pool EXCEPT ![c].w[k] = [@ EXCEPT !.pc = "send", !.res = res]]
              /\ cyc' = cyc
  /\ UNCHANGED <<config, headers, locks, call, now, processedURLs, streamActive, ctxDone, rd, loops, once>>

\* worker: warmSegment returns the CacheStatus of its request.
WorkerFetch(c, k) ==
  /\ pool[c].w[k].pc = "fetch"
  /\ \E res \in warmSegment(pool[c].w[k].url) :
       pool' = [pool EXCEPT ![c].w[k] = [@ EXCEPT !.pc = "send", !.res = res]]
  /\ UNCHANGED <<config, headers, locks, call, now, processedURLs, streamActive, ctxDone, rd, loops, cyc, once>>

\* worker: results <- result.
WorkerSend(c, k) ==
  /\ pool[c].w[k].pc = "send"
  /\ Len(pool[c].results) < pool[c].cap
  /\ pool' = [pool EXCEPT ![c].results = Append(@, pool[c].w[k].res),
                          ![c].w[k] = [NoWorker EXCEPT !.pc = "recv"]]
  /\ UNCHANGED <<config, headers, locks, call, now, processedURLs, streamActive, ctxDone, rd, loops, cyc, once>>

\* worker: jobs is closed and drained; the deferred wg.Done() runs.
WorkerExit(c, k) ==
  /\ pool[c].w[k].pc = "recv"
  /\ Len(pool[c].jobs) = 0 /\ pool[c].jobsClosed
  /\ pool' = [pool EXCEPT ![c].w[k] = [NoWorker EXCEPT !.pc = "done"], ![c].wg = @ - 1]
  /\ UNCHANGED <<config, headers, locks, call, now, processedURLs, streamActive, ctxDone, rd, loops, cyc, once>>

\* A closing goroutine that closes results without waiting for the workers.
CloseResults_NoWait(c) ==
  /\ pool[c].closer = "wait"
  /\ pool' = [pool EXCEPT ![c].closer = "done", ![c].resultsClosed = TRUE]
  /\ UNCHANGED <<config, headers, locks, call, now, processedURLs, streamActive, ctxDone, rd, loops, cyc, once>>

\* The closing goroutine: wg.Wait() returns and results is closed.
CloseResults(c) ==
  /\ pool[c].closer = "wait" /\ pool[c].wg = 0
  /\ pool' = [pool EXCEPT ![c].closer = "done", ![c].resultsClosed = TRUE]
  /\ UNCHANGED <<config, headers, locks, call, now, processedURLs, streamActive, ctxDone, rd, loops, cyc, once>>

\* warmSegments: the range over results yields the next CacheStatus.
Collect(c) ==
  /\ AtPc(c, "collect")
  /\ Len(pool[c].results) > 0
  /\ cyc' = [cyc EXCEPT ![c].allResults = Append(@, Head(pool[c].results))]
  /\ pool' = [pool EXCEPT ![c].results = Tail(@)]
  /\ UNCHANGED <<config, headers, locks, call, now, processedURLs, streamActive, ctxDone, rd, loops, once>>

\* warmSegments: results is closed and drained; return allResults to
\* warmStreamOnce or to WarmM3U8.
CollectDone(c) ==
  /\ AtPc(c, "collect")
  /\ Len(pool[c].results) = 0 /\ pool[c].resultsClosed
  /\ cyc' = [cyc EXCEPT ![c].pc = IF daemonMode THEN "summary" ELSE "fold"]
  /\ pool' = [pool EXCEPT ![c] = NoPool]
  /\ UNCHANGED <<config, headers, locks, call, now, processedURLs, streamActive, ctxDone, rd, loops, once>>

----------------------------------------------------------------------------
(* The end of a daemon cycle                                               *)

\* A count of hits that takes every outcome without a failure cause for a
\* hit.
CountHits_EveryAnswer(results) ==
  Cardinality({i \in 1..Len(results) : results[i].Error = "nil"})

\* Outcomes without a failure cause that are hits.
CountHits(results) ==
  Cardinality({i \in 1..Len(results) : results[i].Error = "nil" /\ results[i].Hit})

\* The failure causes of the outcomes, in the order of the outcomes.
RECURSIVE CollectErrors(_)
CollectErrors(results) ==
  IF results = <<>> THEN <<>>
  ELSE IF Head(results).Error # "nil"
    THEN <<Head(results).Error>> \o CollectErrors(Tail(results))
    ELSE CollectErrors(Tail(results))

\* warmStreamOnce: count hits and errors and print the stream's line.
Summary(c) ==
  /\ AtPc(c, "summary")
  /\ cyc' = [cyc EXCEPT ![c].pc = "end", ![c].report = "stats",
                        ![c].hitCount = CountHits(cyc[c].allResults),
                        ![c].errorCount = Len(CollectErrors(cyc[c].allResults))]
  /\ UNCHANGED <<config, headers, locks, call, now, processedURLs, streamActive, ctxDone, rd, loops, pool, once>>

\* A goroutine that calls endStreamProcessing as its last statement instead
\* of deferring it, and returns early when warmStreamOnce gave up.
EndCycle_NoDefer(c) ==
  /\ AtPc(c, "end")
  /\ streamActive' = IF cyc[c].report = "stats" THEN endStreamProcessing(cyc[c].stream)
                                                ELSE streamActive
  /\ cyc' = [cyc EXCEPT ![c] = NoCycle]
  /\ UNCHANGED <<config, headers, locks, call, now, processedURLs, ctxDone, rd, loops, pool, once>>

\* The goroutine of scheduleStreamWarm: warmStreamOnce has returned and the
\* deferred endStreamProcessing runs.
EndCycle(c) ==
  /\ AtPc(c, "end")
  /\ streamActive' = endStreamProcessing(cyc[c].stream)
  /\ cyc' = [cyc EXCEPT ![c] = NoCycle]
  /\ UNCHANGED <<config, headers, locks, call, now, processedURLs, ctxDone, rd, loops, pool, once>>

----------------------------------------------------------------------------
(* Single-pass mode: runOnceMode and WarmM3U8                              *)

\* WarmM3U8, "Auto-detect referer if not set" and the same for the origin:
\* the header is replaced only when it is empty and the base URL is not.
AutoDetect(header, m3u8URL) ==
  IF header = NoHeader /\ extractBaseURL(m3u8URL) # NoHeader
    THEN extractBaseURL(m3u8URL)
    ELSE header

\* runOnceMode: warmer.WarmM3U8(m3u8URL) for the next playlist, up to the
\* playlist request of parseM3U8.
OnceCall ==
  /\ ~daemonMode /\ once.i <= Len(m3u8URLs) /\ AtPc(1, "none")
  /\ referer' = AutoDetect(referer, m3u8URLs[once.i])
  /\ origin' = AutoDetect(origin, m3u8URLs[once.i])
  /\ cyc' = [cyc EXCEPT ![1] = [NoCycle EXCEPT !.pc = "oparse", !.stream = m3u8URLs[once.i]]]
  /\ once' = [once EXCEPT !.result = NoResult]
  /\ UNCHANGED <<config, locks, call, now, processedURLs, streamActive, ctxDone, rd, loops, pool>>

\* WarmM3U8: parseM3U8 fails; return nil and the parse error.
OnceParseFail ==
  /\ ~daemonMode /\ AtPc(1, "oparse")
  /\ once' = [i |-> once.i + 1, result |-> [NoResult EXCEPT !.err = "M3U8 parse error"]]
  /\ cyc' = [cyc EXCEPT ![1] = NoCycle]
  /\ UNCHANGED <<config, headers, locks, call, now, processedURLs, streamActive, ctxDone, rd, loops, pool>>

\* A WarmM3U8 that passes the parsed segments through the filter of the
\* daemon before it warms them.
OnceParseOk_Filter ==
  /\ ~daemonMode /\ AtPc(1, "oparse")
  /\ \E body \in Bodies(cyc[1].stream) :
       /\ cyc' = [cyc EXCEPT ![1].pc = "filter", ![1].segments = body]
       /\ pool' = pool
  /\ UNCHANGED <<config, headers, locks, call, now, processedURLs, streamActive, ctxDone, rd, loops, once>>

\* WarmM3U8: parseM3U8 succeeds; results := h.warmSegments(segments).
OnceParseOk ==
  /\ ~daemonMode /\ AtPc(1, "oparse")
  /\ \E body \in Bodies(cyc[1].stream) :
       /\ cyc' = [cyc EXCEPT ![1].pc = "send", ![1].segments = body, ![1].newSegments = body]
       /\ pool' = [pool EXCEPT ![1] = StartWorkers(body)]
  /\ UNCHANGED <<config, headers, locks, call, now, processedURLs, streamActive, ctxDone, rd, loops, once>>

\* A WarmM3U8 that gives up on the first failed segment.
WarmResult_FailFast(segments, results) ==
  IF CollectErrors(results) # <<>>
    THEN [NoResult EXCEPT !.err = "failed"]
    ELSE [err |-> "nil", TotalFiles |-> Len(segments), CachedFiles |-> CountHits(results),
          Errors |-> <<>>, Details |-> results]

\* WarmM3U8 after warmSegments: the WarmResult it returns.
WarmResult(segments, results) ==
  [err |-> "nil", TotalFiles |-> Len(segments), CachedFiles |-> CountHits(results),
   Errors |-> CollectErrors(results), Details |-> results]

\* WarmM3U8 returns its summary and runOnceMode moves to the next playlist.
Fold ==
  /\ ~daemonMode /\ AtPc(1, "fold")
  /\ once' = [i |-> once.i + 1, result |-> WarmResult(cyc[1].segments, cyc[1].allResults)]
  /\ cyc' = [cyc EXCEPT ![1] = NoCycle]
  /\ UNCHANGED <<config, headers, locks, call, now, processedURLs, streamActive, ctxDone, rd, loops, pool>>

----------------------------------------------------------------------------
(* The two mutexes, one Lock and one Unlock at a time                      *)

\* The threads that take a mutex: the main goroutine in RunDaemon, the
\* goroutine of warmStreamContinuously for the i-th playlist, the goroutine
\* of a warm cycle, and a worker of its warmSegments call.
MainThread == <<"main">>
LoopThread(i) == <<"loop", i>>
CycleThread(c) == <<"cycle", c>>
WorkerThread(c, k) == <<"worker", c, k>>

\* beginStreamProcessing: h.streamMu.Lock().
BeginLock(thread) ==
  /\ streamMu = Free
  /\ streamMu' = thread /\ mu' = mu

\* beginStreamProcessing from the flag test to the deferred
\* h.streamMu.Unlock(), and what scheduleStreamWarm does with the verdict.
BeginUnlock(thread, m3u8URL) ==
  /\ streamMu = thread
  /\ scheduleStreamWarm(m3u8URL)
  /\ streamMu' = Free /\ mu' = mu

\* RunDaemon, h.scheduleStreamWarm(m3u8URL): the Lock of beginStreamProcessing.
RunDaemonBeginLock ==
  /\ daemonMode /\ rd.pc = "schedule"
  /\ BeginLock(MainThread)
  /\ UNCHANGED <<config, headers, call, now, processedURLs, streamActive, ctxDone, rd, loops, cyc, pool, once>>

\* RunDaemon, h.scheduleStreamWarm(m3u8URL): the rest of it.
RunDaemonBeginUnlock ==
  /\ daemonMode /\ rd.pc = "schedule"
  /\ BeginUnlock(MainThread, m3u8URLs[rd.i])
  /\ rd' = [rd EXCEPT !.pc = "go"]
  /\ UNCHANGED <<config, headers, call, now, processedURLs, ctxDone, loops, pool, once>>

\* warmStreamContinuously, h.scheduleStreamWarm(m3u8URL) of the tick case:
\* the Lock of beginStreamProcessing.
LoopBeginLock(i) ==
  /\ daemonMode /\ loops[i] = "tick"
  /\ BeginLock(LoopThread(i))
  /\ UNCHANGED <<config, headers, call, now, processedURLs, streamActive, ctxDone, rd, loops, cyc, pool, once>>

\* warmStreamContinuously, h.scheduleStreamWarm(m3u8URL) of the tick case:
\* the rest of it, and back to the select.
LoopBeginUnlock(i) ==
  /\ daemonMode /\ loops[i] = "tick"
  /\ BeginUnlock(LoopThread(i), m3u8URLs[i])
  /\ loops' = [loops EXCEPT ![i] = "select"]
  /\ UNCHANGED <<config, headers, call, now, processedURLs, ctxDone, rd, pool, once>>

\* A warmStreamOnce that takes h.mu before it fetches the playlist.
FilterLock_BeforeParse(c) ==
  /\ AtPc(c, "parse") /\ mu = Free
  /\ mu' = CycleThread(c)
  /\ UNCHANGED <<config, headers, streamMu, call, now, processedURLs, streamActive, ctxDone, rd, loops, cyc, pool, once>>

\* warmStreamOnce: h.mu.Lock() before the filter loop.
FilterLock(c) ==
  /\ AtPc(c, "filter") /\ mu = Free
  /\ mu' = CycleThread(c)
  /\ UNCHANGED <<config, headers, streamMu, call, now, processedURLs, streamActive, ctxDone, rd, loops, cyc, pool, once>>

\* warmStreamOnce: the filter loop and h.mu.Unlock().
FilterUnlock(c) ==
  /\ AtPc(c, "filter") /\ mu = CycleThread(c)
  /\ LET r == FilterNew(cyc[c].segments, 1, processedURLs, <<>>, now) IN
       /\ processedURLs' = r.ledger
       /\ cyc' = [cyc EXCEPT ![c].newSegments = r.newSegments,
                             ![c].nNew = Len(r.newSegments),
                             ![c].pc = IF rewarmLast > 0 THEN "rewarm" ELSE "check"]
  /\ mu' = Free
  /\ UNCHANGED <<config, headers, streamMu, call, now, streamActive, ctxDone, rd, loops, pool, once>>

\* warmStreamOnce, h.rewarmLast > 0: h.mu.Lock().
RewarmLock(c) ==
  /\ AtPc(c, "rewarm") /\ mu = Free
  /\ mu' = CycleThread(c)
  /\ UNCHANGED <<config, headers, streamMu, call, now, processedURLs, streamActive, ctxDone, rd, loops, cyc, pool, once>>

\* warmStreamOnce, h.rewarmLast > 0: the block and h.mu.Unlock().
RewarmUnlock(c) ==
  /\ AtPc(c, "rewarm") /\ mu = CycleThread(c)
  /\ LET r == RewarmTail(cyc[c].segments, RewarmStart(cyc[c].segments),
                         processedURLs, cyc[c].newSegments, now) IN
       /\ processedURLs' = r.ledger
       /\ cyc' = [cyc EXCEPT ![c].newSegments = r.newSegments, ![c].pc = "check"]
  /\ mu' = Free
  /\ UNCHANGED <<config, headers, streamMu, call, now, streamActive, ctxDone, rd, loops, pool, once>>

\* worker: the request of warmSegment ends.  A failure returns its
\* CacheStatus at once; otherwise the status is built and is about to be
\* stored in h.cacheStats.
WarmSegmentRequest(c, k) ==
  /\ pool[c].w[k].pc = "fetch"
  /\ \E res \in warmSegment(pool[c].w[k].url) :
       pool' = [pool EXCEPT ![c].w[k] =
                  [@ EXCEPT !.pc = IF res.Error = "nil" THEN "stats" ELSE "send",
                            !.res = res]]
  /\ UNCHANGED <<config, headers, locks, call, now, processedURLs, streamActive, ctxDone, rd, loops, cyc, once>>

\* warmSegment: h.mu.Lock() before the write to h.cacheStats.
CacheStatsLock(c, k) ==
  /\ pool[c].w[k].pc = "stats" /\ mu = Free
  /\ mu' = WorkerThread(c, k)
  /\ UNCHANGED <<config, headers, streamMu, call, now, processedURLs, streamActive, ctxDone, rd, loops, cyc, pool, once>>

\* warmSegment: h.cacheStats[segmentURL] = status, h.mu.Unlock() and the
\* return.  Nothing reads h.cacheStats, so the map itself is not kept.
CacheStatsUnlock(c, k) ==
  /\ pool[c].w[k].pc = "stats" /\ mu = WorkerThread(c, k)
  /\ mu' = Free
  /\ pool' = [pool EXCEPT ![c].w[k].pc = "send"]
  /\ UNCHANGED <<config, headers, streamMu, call, now, processedURLs, streamActive, ctxDone, rd, loops, cyc, once>>

\* The deferred endStreamProcessing: h.streamMu.Lock().
EndLock(c) ==
  /\ AtPc(c, "end") /\ streamMu = Free
  /\ streamMu' = CycleThread(c)
  /\ UNCHANGED <<config, headers, mu, call, now, processedURLs, streamActive, ctxDone, rd, loops, cyc, pool, once>>

\* The deferred endStreamProcessing: the delete, h.streamMu.Unlock(), and
\* the goroutine ends.
EndUnlock(c) ==
  /\ AtPc(c, "end") /\ streamMu = CycleThread(c)
  /\ streamActive' = endStreamProcessing(cyc[c].stream)
  /\ streamMu' = Free
  /\ cyc' = [cyc EXCEPT ![c] = NoCycle]
  /\ UNCHANGED <<config, headers, mu, call, now, processedURLs, ctxDone, rd, loops, pool, once>>

----------------------------------------------------------------------------
(* The filter loop of warmStreamOnce, one statement at a time              *)

\* A warmStreamOnce that enters its filter loop without h.mu.Lock().
FilterEnter_NoLock(c) ==
  /\ AtPc(c, "filter")
  /\ cyc' = [cyc EXCEPT ![c].pc = "test", ![c].i = 0]
  /\ UNCHANGED <<config, headers, locks, call, now, processedURLs, streamActive, ctxDone, rd, loops, pool, once>>

\* warmStreamOnce: h.mu.Lock() and the start of the range over segments; i
\* counts the segments the loop has dealt with.
FilterEnter(c) ==
  /\ AtPc(c, "filter") /\ mu = Free
  /\ mu' = CycleThread(c)
  /\ cyc' = [cyc EXCEPT ![c].pc = "test", ![c].i = 0]
  /\ UNCHANGED <<config, headers, streamMu, call, now, processedURLs, streamActive, ctxDone, rd, loops, pool, once>>

\* The filter loop: last, seen := h.processedURLs[segment] and the test
\* !seen || time.Since(last) > h.processedTTL for the next segment.
FilterTest(c) ==
  /\ AtPc(c, "test") /\ cyc[c].i < Len(cyc[c].segments)
  /\ cyc' = IF IsNew(processedURLs, cyc[c].segments[cyc[c].i + 1], now)
              THEN [cyc EXCEPT ![c].pc = "stamp"]
              ELSE [cyc EXCEPT ![c].i = @ + 1]
  /\ UNCHANGED <<config, headers, locks, call, now, processedURLs, streamActive, ctxDone, rd, loops, pool, once>>

\* The filter loop: newSegments = append(newSegments, segment) and
\* h.processedURLs[segment] = time.Now().
FilterStamp(c) ==
  /\ AtPc(c, "stamp")
  /\ processedURLs' = [processedURLs EXCEPT ![cyc[c].segments[cyc[c].i + 1]] = now]
  /\ cyc' = [cyc EXCEPT ![c].newSegments = Append(@, cyc[c].segments[cyc[c].i + 1]),
                        ![c].i = @ + 1,
                        ![c].pc = "test"]
  /\ UNCHANGED <<config, headers, locks, call, now, streamActive, ctxDone, rd, loops, pool, once>>

\* The range over segments is over: h.mu.Unlock().
FilterLeave(c) ==
  /\ AtPc(c, "test") /\ cyc[c].i = Len(cyc[c].segments)
  /\ mu' = Free
  /\ cyc' = [cyc EXCEPT ![c].nNew = Len(cyc[c].newSegments),
                        ![c].i = 0,
                        ![c].pc = IF rewarmLast > 0 THEN "rewarm" ELSE "check"]
  /\ UNCHANGED <<config, headers, streamMu, call, now, processedURLs, streamActive, ctxDone, rd, loops, pool, once>>

----------------------------------------------------------------------------
(* The program                                                             *)

WorkerCounts == 1..MaxWorkers   \* -workers, single-pass runs
DaemonWorkerCounts == {1}       \* -workers, daemon runs
RewarmCounts == {0, 1}          \* -rewarm-last
LockWorkerCounts == {1}          \* -workers, daemon runs with two playlists

\* NewHLSWarmer: the state after construction, before main picks the mode.
NewHLSWarmer ==
  /\ now = 0
  /\ processedURLs = [s \in Segs |-> Never]
  /\ streamActive = {}
  /\ ctxDone = FALSE
  /\ loops = [i \in 1..2 |-> "off"]
  /\ cyc = [c \in Slots |-> NoCycle]
  /\ pool = [c \in Slots |-> NoPool]
  /\ once = [i |-> 1, result |-> NoResult]
  /\ mu = Free /\ streamMu = Free

\* main with -daemon: one playlist, given twice, and neither -referer nor
\* -origin.
InitDaemon ==
  /\ daemonMode = TRUE
  /\ maxWorkers \in DaemonWorkerCounts
  /\ rewarmLast \in RewarmCounts
  /\ m3u8URLs = <<"pA", "pA">>
  /\ referer = NoHeader /\ origin = NoHeader
  /\ rd = [pc |-> "schedule", i |-> 1]

\* main without -daemon: two playlists, warmed one after the other, with
\* -referer and -origin given or not.
InitOnce ==
  /\ daemonMode = FALSE
  /\ maxWorkers \in WorkerCounts
  /\ rewarmLast = 0
  /\ m3u8URLs = <<"pA", "pC">>
  /\ referer \in {NoHeader, ConfiguredHeader}
  /\ origin \in {NoHeader, ConfiguredHeader}
  /\ rd = [pc |-> "off", i |-> 1]

Init == NewHLSWarmer /\ call = NoCall /\ (InitDaemon \/ InitOnce)

WarmCycle(c) ==
  \/ ParseFail(c) \/ ParseOk(c) \/ Filter(c) \/ Rewarm(c)
  \/ NoNewSegments(c) \/ Dispatch(c) \/ Summary(c) \/ EndCycle(c)

FetchExecutor(c) ==
  \/ SendJob(c) \/ CloseJobs(c) \/ CloseResults(c) \/ Collect(c) \/ CollectDone(c)
  \/ \E k \in Workers : WorkerRecv(c, k) \/ WorkerFetch(c, k)
                          \/ WorkerSend(c, k) \/ WorkerExit(c, k)

\* runDaemonMode while its context is not cancelled.  Cancel, LoopExit and
\* RunDaemonReturn only stop threads: they add no behaviour of the ledger, the
\* flags, the cycles or the pools.
NextDaemon ==
  \/ RunDaemonSchedule \/ RunDaemonGo \/ Advance
  \/ \E i \in DOMAIN loops : LoopTick(i) \/ LoopSchedule(i)
  \/ \E c \in Slots : WarmCycle(c)

\* runOnceMode.
NextOnce == OnceCall \/ OnceParseFail \/ OnceParseOk \/ Fold

Next == NextDaemon \/ NextOnce \/ \E c \in Slots : FetchExecutor(c)

Spec == Init /\ [][Next]_vars

\* Every goroutine that can take a step is scheduled in the end, and every
\* HTTP request ends (the client carries a timeout): a warm cycle and the
\* workers, the producer and the closing goroutine of its warmSegments call
\* keep moving while one of them can.
Fairness ==
  \A c \in Slots : WF_vars(WarmCycle(c)) /\ WF_vars(FetchExecutor(c))

SpecFair == Spec /\ Fairness

\* runDaemonMode with its signal handler: the daemon of Spec, which can be
\* cancelled at any moment.
InitCancel == NewHLSWarmer /\ call = NoCall /\ InitDaemon

NextCancel ==
  \/ RunDaemonSchedule \/ RunDaemonGo \/ RunDaemonReturn
  \/ Cancel \/ MainReturn
  \/ \E i \in DOMAIN loops : LoopTick(i) \/ LoopSchedule(i) \/ LoopExit(i)
  \/ \E c \in Slots : WarmCycle(c) \/ FetchExecutor(c)

\* Besides the goroutines of the cycles, the main goroutine runs when it
\* can: RunDaemon's loop, its return once the context is done, and the
\* return of main after it.  Nothing is assumed about which case a select
\* of warmStreamContinuously takes.
FairnessCancel ==
  /\ Fairness
  /\ WF_vars(RunDaemonSchedule \/ RunDaemonGo \/ RunDaemonReturn \/ MainReturn)

SpecCancel == InitCancel /\ [][NextCancel]_vars /\ FairnessCancel

\* main with -daemon, -rewarm-last N for every N from 1 to one more than the
\* longest list, and one playlist whose list is any list each time it is
\* fetched.
InitRewarm ==
  /\ NewHLSWarmer /\ call = NoCall
  /\ daemonMode = TRUE /\ maxWorkers = 1
  /\ rewarmLast \in 1..(MaxLen + 1)
  /\ m3u8URLs = <<"pC">>
  /\ referer = NoHeader /\ origin = NoHeader
  /\ rd = [pc |-> "schedule", i |-> 1]

NextRewarm == NextDaemon \/ \E c \in Slots : FetchExecutor(c)

SpecRewarm == InitRewarm /\ [][NextRewarm]_vars

\* An HLSWarmer on which no playlist is warmed.
InitIdle ==
  /\ NewHLSWarmer
  /\ daemonMode = FALSE /\ maxWorkers = 1 /\ rewarmLast = 0
  /\ m3u8URLs = <<>>
  /\ referer = NoHeader /\ origin = NoHeader
  /\ rd = [pc |-> "off", i |-> 1]

\* detectCacheHit on its own, on every response.
InitDetect ==
  /\ InitIdle
  /\ call \in {[fn |-> "detectCacheHit", arg |-> resp, ret |-> <<>>] : resp \in Responses}

SpecDetect == InitDetect /\ [][DetectCacheHit]_vars

\* parseM3U8 on its own, on every body of at most MaxLines lines served at
\* https://cdn.example/live/index.m3u8.
InitParse ==
  /\ InitIdle
  /\ call \in {[fn |-> "parseM3U8", arg |-> [m3u8URL |-> CdnLiveIndex, body |-> b], ret |-> <<>>] :
                b \in PlaylistBodies(MaxLines)}

NextParse == ParseM3U8 \/ ParseM3U8Error

SpecParse == InitParse /\ [][NextParse]_vars

\* main with -daemon and two playlists that list the same segment, every
\* Lock and Unlock a step of its own.
InitLocks ==
  /\ NewHLSWarmer /\ call = NoCall
  /\ daemonMode = TRUE
  /\ maxWorkers \in LockWorkerCounts
  /\ rewarmLast \in RewarmCounts
  /\ m3u8URLs = <<"pD", "pB">>
  /\ referer = NoHeader /\ origin = NoHeader
  /\ rd = [pc |-> "schedule", i |-> 1]

WarmCycleLocks(c) ==
  \/ ParseFail(c) \/ ParseOk(c)
  \/ FilterLock(c) \/ FilterUnlock(c) \/ RewarmLock(c) \/ RewarmUnlock(c)
  \/ NoNewSegments(c) \/ Dispatch(c) \/ Summary(c)
  \/ EndLock(c) \/ EndUnlock(c)

FetchExecutorLocks(c) ==
  \/ SendJob(c) \/ CloseJobs(c) \/ CloseResults(c) \/ Collect(c) \/ CollectDone(c)
  \/ \E k \in Workers :
       \/ WorkerRecv(c, k) \/ WarmSegmentRequest(c, k)
       \/ CacheStatsLock(c, k) \/ CacheStatsUnlock(c, k)
       \/ WorkerSend(c, k) \/ WorkerExit(c, k)

NextLocks ==
  \/ RunDaemonBeginLock \/ RunDaemonBeginUnlock \/ RunDaemonGo
  \/ \E i \in DOMAIN loops : LoopTick(i) \/ LoopBeginLock(i) \/ LoopBeginUnlock(i)
  \/ \E c \in Slots : WarmCycleLocks(c) \/ FetchExecutorLocks(c)

SpecLocks == InitLocks /\ [][NextLocks]_vars

\* Both modes of main with every Lock and Unlock a step of its own: the
\* daemon of SpecLocks, or the single pass of Spec.
InitAccess == InitLocks \/ (NewHLSWarmer /\ call = NoCall /\ InitOnce)

NextAccess == NextLocks \/ NextOnce

SpecAccess == InitAccess /\ [][NextAccess]_vars

\* main with -daemon, -rewarm-last 0 and two playlists that list the same
\* segment, the filter loop of each cycle one statement at a time.
InitShared ==
  /\ NewHLSWarmer /\ call = NoCall
  /\ daemonMode = TRUE /\ maxWorkers = 1 /\ rewarmLast = 0
  /\ m3u8URLs = <<"pD", "pB">>
  /\ referer = NoHeader /\ origin = NoHeader
  /\ rd = [pc |-> "schedule", i |-> 1]

WarmCycleShared(c) ==
  \/ ParseFail(c) \/ ParseOk(c)
  \/ FilterEnter(c) \/ FilterTest(c) \/ FilterStamp(c) \/ FilterLeave(c)
  \/ NoNewSegments(c) \/ Dispatch(c) \/ Summary(c) \/ EndCycle(c)

NextShared ==
  \/ RunDaemonSchedule \/ RunDaemonGo \/ Advance
  \/ \E i \in DOMAIN loops : LoopTick(i) \/ LoopSchedule(i)
  \/ \E c \in Slots : WarmCycleShared(c) \/ FetchExecutor(c)

SpecShared == InitShared /\ [][NextShared]_vars

----------------------------------------------------------------------------
(* Properties                                                              *)

\* The slots whose goroutine runs a warm cycle for playlist p.
CyclesOf(p) == {c \in Slots : cyc[c].pc # "none" /\ cyc[c].stream = p}

\* C1: in daemon mode at most one warm cycle per playlist is in flight in
\* every reachable state, whatever the interleaving of kick-off, ticks and
\* completions, also when the playlist is passed to RunDaemon twice.
C1_OneCyclePerPlaylist ==
  daemonMode => \A p \in Playlists : Cardinality(CyclesOf(p)) <= 1

\* The kick-off of the second copy of the playlist has run, the tick loop of
\* the first copy is calling scheduleStreamWarm and a cycle is fetching.
C1_Witness ==
  /\ daemonMode /\ rd.i = 2 /\ rd.pc = "go" /\ loops[1] = "tick"
  /\ \E c \in Slots : cyc[c].stream = "pA" /\ cyc[c].pc = "collect"

\* A step of thread t that is a call of scheduleStreamWarm(p).
IsScheduleStep(p) ==
  \/ \E i \in DOMAIN loops : loops[i] = "tick" /\ loops'[i] = "select" /\ m3u8URLs[i] = p
  \/ rd.pc = "schedule" /\ rd'.pc = "go" /\ m3u8URLs[rd.i] = p

\* C2: a call of scheduleStreamWarm for a playlist whose flag is set changes
\* neither the ledger, the flags, the cycles nor the pools, and it can always
\* be taken at once (it does not wait for the running cycle); a cycle starts
\* only in a call of scheduleStreamWarm for a playlist whose flag is clear,
\* so a skipped tick leaves nothing behind that starts a cycle later.
C2_SkippedTickIsNoOp ==
  /\ [](\A i \in DOMAIN loops : loops[i] = "tick" => ENABLED LoopSchedule(i))
  /\ [][ /\ \A p \in Playlists :
              IsScheduleStep(p) /\ p \in streamActive
                => UNCHANGED <<processedURLs, streamActive, cyc, pool>>
         /\ \A c \in Slots :
              cyc[c].pc = "none" /\ cyc'[c].pc # "none" /\ daemonMode
                => /\ IsScheduleStep(cyc'[c].stream)
                   /\ cyc'[c].stream \notin streamActive
                   /\ CyclesOf(cyc'[c].stream) = {} ]_vars

\* Both tick loops are about to call scheduleStreamWarm while the cycle of
\* the kick-off has not completed.
C2_Witness ==
  /\ loops[1] = "tick" /\ loops[2] = "tick" /\ "pA" \in streamActive
  /\ \E c \in Slots : cyc[c].stream = "pA" /\ cyc[c].pc \in {"parse", "send", "collect"}

\* The URLs of a list of outcomes.
URLs(results) == [i \in 1..Len(results) |-> results[i].URL]

\* warmSegments has just returned to its caller in slot c.
Returned(c) == AtPc(c, "fold") \/ AtPc(c, "summary")

\* C3: when warmSegments returns, it returns as many outcomes as it was given
\* URLs, the URLs of the outcomes are the given URLs as a multiset, and every
\* given URL was requested exactly once, whichever fetches failed.
C3_OneOutcomePerURL ==
  \A c \in Slots :
    Returned(c) =>
      /\ Len(cyc[c].allResults) = Len(cyc[c].newSegments)
      /\ \A u \in Segs :
           /\ Count(URLs(cyc[c].allResults), u) = Count(cyc[c].newSegments, u)
           /\ Count(cyc[c].reqs, u) = Count(cyc[c].newSegments, u)

\* Two workers were given the same URL twice; one fetch failed, one did not.
C3_Witness ==
  /\ AtPc(1, "fold") /\ maxWorkers = 2 /\ cyc[1].newSegments = <<"s1", "s1">>
  /\ \E i, j \in 1..2 : cyc[1].allResults[i].Error = "failed" /\ cyc[1].allResults[j].Error = "nil"

\* The workers of slot c whose request is in flight.
InFlight(c) == {k \in Workers : pool[c].w[k].pc = "fetch"}

\* C4: during a warmSegments call the number of segment requests in flight
\* never exceeds the worker count.
C4_AtMostNInFlight ==
  \A c \in Slots : Cardinality(InFlight(c)) <= maxWorkers

\* One worker, more segments than workers: a request is in flight while
\* another URL waits in the queue.
C4_Witness ==
  /\ maxWorkers = 1 /\ Cardinality(InFlight(1)) = 1 /\ Len(pool[1].jobs) >= 1

\* The step in which the cycle of slot c leaves the given pc.
Leaves(c, pc) == cyc[c].pc = pc /\ cyc'[c].pc # pc

\* C5: with rewarm-last disabled, the filter of a daemon cycle selects a
\* segment of the playlist as new exactly when the segment has no ledger entry
\* or more than the TTL has passed since its stamp T: not at T + TTL/2, not at
\* T + TTL, and at every later time.
C5_NewIffUnseenOrExpired ==
  [][ \A c \in Slots :
        Leaves(c, "filter") /\ rewarmLast = 0 =>
          \A s \in Range(cyc[c].segments) :
            LET T == processedURLs[s]
                selected == s \in Range(cyc'[c].newSegments)
            IN /\ T = Never => selected
               /\ T # Never /\ 2 * now = 2 * T + processedTTL => ~selected
               /\ T # Never /\ now <= T + processedTTL => ~selected
               /\ T # Never /\ now > T + processedTTL => selected ]_vars

\* The filter has run exactly one TTL after a segment was stamped and has
\* not selected it.
C5_Witness ==
  \E c \in Slots :
    /\ rewarmLast = 0 /\ AtPc(c, "check")
    /\ \E s \in Range(cyc[c].segments) :
         /\ s \notin Range(cyc[c].newSegments)
         /\ processedURLs[s] # Never /\ now = processedURLs[s] + processedTTL

\* The filter has selected again a segment stamped by an earlier cycle.
C5_WitnessExpired ==
  \E c \in Slots :
    /\ rewarmLast = 0 /\ AtPc(c, "check") /\ now = MaxTime
    /\ cyc[c].segments = <<"s1", "s2">> /\ cyc[c].newSegments = <<"s1">>
    /\ processedURLs["s2"] # Never

\* The cycle of slot c is past the rewarm block of warmStreamOnce.
PastRewarm(c) == cyc[c].pc \in {"check", "send", "collect", "summary", "end"}

\* C6: with rewarm-last = 1 and a non-empty playlist, every daemon cycle has
\* the final segment of the playlist in its fetch set, requests it and gets an
\* outcome for it, whether or not its ledger entry was fresh, and never
\* reports "no new segments".
C6_RewarmLastRefetchesFinal ==
  \A c \in Slots :
    daemonMode /\ rewarmLast = 1 /\ cyc[c].segments # <<>> /\ PastRewarm(c) =>
      LET final == cyc[c].segments[Len(cyc[c].segments)] IN
        /\ final \in Range(cyc[c].newSegments)
        /\ cyc[c].report # "no new segments"
        /\ cyc[c].pc \in {"summary", "end"} =>
             final \in Range(cyc[c].reqs) /\ final \in Range(URLs(cyc[c].allResults))

\* Every segment of the playlist was fresh (the filter selected none) and the
\* cycle has fetched the final one all the same.
C6_Witness ==
  \E c \in Slots :
    /\ daemonMode /\ rewarmLast = 1 /\ AtPc(c, "summary")
    /\ cyc[c].segments = <<"s1", "s2">> /\ cyc[c].nNew = 0
    /\ cyc[c].reqs = <<"s2">>

\* C7: a warm cycle whose playlist could not be fetched or parsed performs no
\* segment fetch.  A daemon cycle that logged the parse error is about to
\* return, has started no worker, sent no request and holds no outcome, and
\* its steps leave the ledger as it was; WarmM3U8 returns the parse error
\* with no summary, having sent no segment request.
C7_ParseFailureFetchesNothing ==
  /\ [](\A c \in Slots :
          cyc[c].report = "parse error" =>
            /\ cyc[c].pc = "end" /\ pool[c] = NoPool
            /\ cyc[c].reqs = <<>> /\ cyc[c].allResults = <<>> /\ cyc[c].newSegments = <<>>)
  /\ [](once.result.err = "M3U8 parse error" =>
          /\ once.result = [NoResult EXCEPT !.err = "M3U8 parse error"]
          /\ pool[1] = NoPool /\ cyc[1].reqs = <<>>)
  /\ [][ /\ \A c \in Slots :
              (cyc[c].report = "parse error" \/ cyc'[c].report = "parse error")
              /\ cyc'[c] # cyc[c]
                => UNCHANGED <<processedURLs, pool>>
         /\ Leaves(1, "oparse") /\ once'.result.err = "M3U8 parse error"
              => UNCHANGED <<processedURLs, pool>> /\ cyc'[1] = NoCycle ]_vars

\* A daemon cycle has failed to parse its playlist while the ledger holds the
\* stamps of an earlier cycle.
C7_Witness ==
  \E c \in Slots :
    /\ cyc[c].report = "parse error" /\ processedURLs["s1"] # Never /\ now > processedURLs["s1"]

\* The outcomes of a list that carry a failure cause.
Failed(results) == {i \in 1..Len(results) : results[i].Error # "nil"}

\* C8: a failed segment fetch stays in its own outcome.  When warmSegments
\* returns to WarmM3U8 with failed outcomes among its results, every URL of
\* the playlist still has its outcome; WarmM3U8 then returns a summary with a
\* nil error whose Details are those outcomes and whose Errors list has one
\* entry per failed outcome.
C8_SegmentFailureIsIsolated ==
  /\ [](AtPc(1, "fold") /\ Failed(cyc[1].allResults) # {} =>
          \A u \in Segs :
            Count(URLs(cyc[1].allResults), u) = Count(cyc[1].segments, u))
  /\ [][ Leaves(1, "fold") =>
           /\ once'.result.err = "nil"
           /\ once'.result.Details = cyc[1].allResults
           /\ once'.result.TotalFiles = Len(cyc[1].segments)
           /\ Len(once'.result.Errors) = Cardinality(Failed(cyc[1].allResults)) ]_vars

\* WarmM3U8 has returned a summary of two segments, one failed and one not.
C8_Witness ==
  /\ ~daemonMode /\ once.result.err = "nil" /\ once.result.TotalFiles = 2
  /\ Len(once.result.Errors) = 1 /\ Len(once.result.Details) = 2
  /\ \E i \in 1..2 : once.result.Details[i].Error = "nil"

\* The last min(rewarmLast, length) segments of a playlist.
TailWindow(segments) ==
  {segments[i] : i \in (Len(segments) - Min(rewarmLast, Len(segments)) + 1)..Len(segments)}

\* C9: nothing is retried.  The requests a cycle has sent are the first
\* entries of its fetch set, one request per entry and, in a daemon cycle, at
\* most one per URL, whatever the outcomes; a request is sent only for the
\* next entry of the fetch set; and a daemon cycle puts a segment in its fetch
\* set only when the filter finds it unstamped or expired past the TTL, or when
\* it lies in the rewarm window of the current playlist.
C9_NoRetry ==
  /\ [](\A c \in Slots :
          /\ Len(cyc[c].reqs) <= Len(cyc[c].newSegments)
          /\ \A i \in 1..Len(cyc[c].reqs) : cyc[c].reqs[i] = cyc[c].newSegments[i]
          /\ daemonMode => \A u \in Segs : Count(cyc[c].reqs, u) <= 1)
  /\ [][ \A c \in Slots :
           /\ cyc'[c].reqs # cyc[c].reqs /\ cyc'[c].pc # "none" =>
                /\ Len(cyc[c].reqs) < Len(cyc[c].newSegments)
                /\ cyc'[c].reqs = Append(cyc[c].reqs, cyc[c].newSegments[Len(cyc[c].reqs) + 1])
           /\ daemonMode /\ cyc'[c].newSegments # cyc[c].newSegments /\ cyc'[c].pc # "none" =>
                \/ /\ Leaves(c, "filter")
                   /\ \A s \in Range(cyc'[c].newSegments) :
                        \/ processedURLs[s] = Never
                        \/ now - processedURLs[s] > processedTTL
                \/ /\ Leaves(c, "rewarm") /\ rewarmLast > 0
                   /\ Range(cyc'[c].newSegments) \ Range(cyc[c].newSegments)
                        \subseteq TailWindow(cyc[c].segments) ]_vars

\* A daemon cycle has collected a failed outcome for s1 and a second outcome,
\* having requested s1 once.
C9_Witness ==
  \E c \in Slots :
    /\ daemonMode /\ AtPc(c, "summary") /\ Len(cyc[c].allResults) = 2
    /\ cyc[c].allResults[1] = CacheStatus("s1", "failed", FALSE)
    /\ Count(cyc[c].reqs, "s1") = 1

\* C10: a daemon cycle whose fetch set is empty after the filter and the
\* rewarm block reports "no new segments" as its next step, without starting
\* a worker; a cycle that has reported it has sent no request and holds no
\* outcome, and when its goroutine ends the playlist's flag is clear again.
C10_EmptyFetchSetDoesNothing ==
  /\ [](\A c \in Slots :
          cyc[c].report = "no new segments" =>
            /\ cyc[c].pc = "end" /\ cyc[c].newSegments = <<>>
            /\ pool[c] = NoPool /\ cyc[c].reqs = <<>> /\ cyc[c].allResults = <<>>)
  /\ [][ \A c \in Slots :
           /\ Leaves(c, "check") /\ cyc[c].newSegments = <<>> =>
                /\ cyc'[c] = [cyc[c] EXCEPT !.pc = "end", !.report = "no new segments"]
                /\ UNCHANGED <<pool, processedURLs, streamActive>>
           /\ Leaves(c, "end") /\ cyc[c].report = "no new segments" =>
                /\ cyc[c].stream \notin streamActive'
                /\ cyc'[c] = NoCycle
                /\ UNCHANGED <<pool, processedURLs>> ]_vars

\* With rewarm-last disabled a cycle has found both segments of the playlist
\* fresh and has reported that there is nothing new.
C10_Witness ==
  \E c \in Slots :
    /\ rewarmLast = 0 /\ cyc[c].report = "no new segments"
    /\ cyc[c].segments = <<"s1", "s2">>

----------------------------------------------------------------------------
(* C11..C20                                                                *)

\* The ways warmStreamOnce returns.
ExitPaths == {"parse error", "no new segments", "stats"}

\* C11: a playlist whose activity flag is set always gets it cleared again:
\* under fair scheduling and with HTTP requests that end, Running leads to
\* Idle.  The goroutine of a cycle ends only by clearing the flag of its
\* playlist, whichever way warmStreamOnce returned (parse error, nothing to
\* fetch, fetches done with or without failures); and once the flag is
\* clear no cycle of the playlist is left, so a tick that calls
\* scheduleStreamWarm starts a new one.
C11_RunningLeadsToIdle ==
  /\ \A p \in Playlists : (p \in streamActive) ~> (p \notin streamActive)
  /\ [](\A c \in Slots : AtPc(c, "end") => cyc[c].report \in ExitPaths)
  /\ [](\A i \in DOMAIN loops :
          loops[i] = "tick" /\ m3u8URLs[i] \notin streamActive =>
            /\ CyclesOf(m3u8URLs[i]) = {}
            /\ \E c \in Slots : FreeSlot(c))
  /\ [][ \A c \in Slots :
           daemonMode /\ cyc[c].pc # "none" /\ cyc'[c].pc = "none" =>
             /\ cyc[c].stream \in streamActive
             /\ cyc[c].stream \notin streamActive' ]_vars

\* The flag is clear again after a cycle that stamped s1 has ended, and a
\* tick is about to start the next cycle.
C11_Witness ==
  /\ daemonMode /\ streamActive = {} /\ processedURLs["s1"] # Never
  /\ \A c \in Slots : cyc[c].pc = "none"
  /\ loops[1] = "tick"

\* The tick loops RunDaemon starts: one per position of m3u8URLs.
TickLoops == 1..2

\* A cycle starts in slot c in this step.
CycleStarts(c) == cyc[c].pc = "none" /\ cyc'[c].pc # "none"

\* This step is a tick loop's call of scheduleStreamWarm.
IsLoopScheduleStep == \E i \in DOMAIN loops : loops[i] = "tick" /\ loops'[i] = "select"

\* The goroutine has ended, by returning or with the process.
Ended(pc) == pc \in {"exited", "killed"}

\* The cycle of slot c is under way.
CycleInFlight(c) == cyc[c].pc \notin {"none", "killed"}

\* This step is the cancellation, a tick loop's exit or RunDaemon's return.
IsCancellationStep ==
  \/ ctxDone' # ctxDone
  \/ \E i \in DOMAIN loops : loops[i] # "exited" /\ loops'[i] = "exited"
  \/ rd.pc = "wait" /\ rd'.pc = "returned"

\* C12 as stated: once the context is cancelled RunDaemon's wait and every
\* tick loop end, no tick loop starts a cycle after the cancellation, and a
\* cycle in flight runs to completion.
C12_NoCycleAfterCancel ==
  /\ ctxDone ~> (rd.pc \in {"returned", "exited"})
  /\ \A i \in TickLoops : ctxDone ~> Ended(loops[i])
  /\ [][ \A c \in Slots : ctxDone /\ CycleStarts(c) => ~IsLoopScheduleStep ]_vars
  /\ \A c \in Slots : (ctxDone /\ CycleInFlight(c)) ~> (cyc[c].pc = "none")

\* C12, amended: once the context is cancelled RunDaemon's wait returns and
\* every tick loop ends, by taking the cancellation case or with the
\* process.  A loop that has ended starts nothing, and when RunDaemon is
\* past its loop and every tick loop has ended no cycle starts any more;
\* but a loop whose select took the tick case still calls
\* scheduleStreamWarm after the cancellation.  The cancellation, the exit of
\* a loop and the return of RunDaemon change no cycle, pool, flag or ledger
\* entry; a cycle in flight runs on until it completes or the process ends,
\* and only the end of the process cuts a cycle short.
C12_CancelledDaemonWindsDown ==
  /\ ctxDone ~> (rd.pc \in {"returned", "exited"})
  /\ \A i \in TickLoops : ctxDone ~> Ended(loops[i])
  /\ [](\A i \in DOMAIN loops : loops[i] = "tick" => ENABLED LoopSchedule(i))
  /\ [](\A c \in Slots : cyc[c].pc = "killed" => rd.pc = "exited")
  /\ [][ /\ \A i \in DOMAIN loops : Ended(loops[i]) => loops'[i] = loops[i]
         /\ \A c \in Slots :
              /\ CycleStarts(c) =>
                   \/ IsLoopScheduleStep
                   \/ rd.pc = "schedule" /\ rd'.pc = "go"
              /\ CycleStarts(c) /\ IsLoopScheduleStep /\ ctxDone =>
                   \E i \in DOMAIN loops : loops[i] = "tick" /\ cyc'[c].stream = m3u8URLs[i]
         /\ IsCancellationStep =>
              UNCHANGED <<cyc, pool, streamActive, processedURLs>> ]_vars
  /\ \A c \in Slots : CycleInFlight(c) ~> (cyc[c].pc \in {"none", "killed"})

\* The context is cancelled, one tick loop has left, RunDaemon has returned,
\* the other loop is about to call scheduleStreamWarm with the flag clear,
\* while the process is still alive.
C12_Witness ==
  /\ ctxDone /\ rd.pc = "returned"
  /\ loops[1] = "exited" /\ loops[2] = "tick"
  /\ streamActive = {} /\ processedURLs["s1"] # Never

\* The character a is the character b up to its case.
FoldEq(a, b) ==
  \/ a = b
  \/ \E j \in 1..Len(UpperCase) :
       \/ a = UpperCase[j] /\ b = LowerCase[j]
       \/ a = LowerCase[j] /\ b = UpperCase[j]

\* The word occurs in the string, whatever the case of the letters.
ContainsFold(str, word) ==
  \E off \in 0..(Len(str) - Len(word)) :
    \A k \in 1..Len(word) : FoldEq(str[off + k], word[k])

\* The response carries the one header given and none of the other headers
\* detectCacheHit reads.
OnlyHeader(resp, header, value) ==
  \A h \in Range(cacheHeaders) : resp[h] = IF h = header THEN value ELSE <<>>

\* C13: detectCacheHit answers hit exactly when one of X-Cache,
\* X-Cache-Status, X-Served-By, CF-Cache-Status, X-Fastly-Cache,
\* X-Varnish-Cache contains "hit" or "cached" in any case, or Age carries a
\* value (Header.Get does not return the empty string) other than "0".  In
\* particular CF-Cache-Status: HIT alone is a hit, Age: 120 alone is a hit,
\* Age: 0 alone is a miss, a response with none of the headers is a miss
\* whatever its other headers say.  The call always returns a verdict and
\* changes nothing but its result.
C13_HitIffCacheHeaderOrAge ==
  /\ [](call.fn = "detectCacheHit" /\ call.ret # <<>> =>
          LET resp == call.arg
              hit == call.ret[1]
              named == \E h \in Range(cacheHeaders) \ {"Age"} :
                         \/ ContainsFold(resp[h], <<"h", "i", "t">>)
                         \/ ContainsFold(resp[h], <<"c", "a", "c", "h", "e", "d">>)
              aged == resp["Age"] # <<>> /\ resp["Age"] # <<"0">>
          IN /\ Len(call.ret) = 1 /\ hit \in BOOLEAN
             /\ hit = (named \/ aged)
             /\ OnlyHeader(resp, "CF-Cache-Status", <<"H", "I", "T">>) => hit = TRUE
             /\ OnlyHeader(resp, "Age", <<"1", "2", "0">>) => hit = TRUE
             /\ OnlyHeader(resp, "Age", <<"0">>) => hit = FALSE
             /\ OnlyHeader(resp, "Age", <<>>) => hit = FALSE)
  /\ [][ call' # call =>
           /\ call'.arg = call.arg /\ call'.fn = call.fn
           /\ UNCHANGED <<processedURLs, streamActive, cyc, pool, once, referer, origin>> ]_vars

\* detectCacheHit has answered miss for a response whose only header among
\* those it reads is Age: 0, beside a Server header that says HIT.
C13_Witness ==
  /\ call.fn = "detectCacheHit" /\ call.ret = <<FALSE>>
  /\ OnlyHeader(call.arg, "Age", <<"0">>)
  /\ call.arg["Server"] = <<"H", "I", "T">>

\* "https://cdn.example/live/seg001.ts"
CdnSeg001URL ==
  <<"h", "t", "t", "p", "s", ":", "/", "/", "c", "d", "n", ".", "e", "x",
    "a", "m", "p", "l", "e", "/", "l", "i", "v", "e", "/", "s", "e", "g",
    "0", "0", "1", ".", "t", "s">>

\* "https://cdn.example/live/seg002.ts"
CdnSeg002URL ==
  <<"h", "t", "t", "p", "s", ":", "/", "/", "c", "d", "n", ".", "e", "x",
    "a", "m", "p", "l", "e", "/", "l", "i", "v", "e", "/", "s", "e", "g",
    "0", "0", "2", ".", "t", "s">>

\* The line is empty or holds white space only.
IsBlank(text) == \A i \in 1..Len(text) : text[i] \in WhiteSpace

\* The line begins with "#".
BeginsWithHash(text) == text # <<>> /\ text[1] = "#"

\* The number of characters the line keeps when it is cleaned.
CleanLength(text) == Cardinality({i \in 1..Len(text) : text[i] \notin NonPrintable})

\* The members of a set of numbers, in increasing order.
Ascending(set) ==
  CHOOSE q \in [1..Cardinality(set) -> set] :
    \A a, b \in 1..Cardinality(set) : a < b => q[a] < q[b]

\* C14: for every playlist body parseM3U8 returns without error, the
\* segments are the resolved URLs of some of the body's lines, one per
\* chosen line and in the order of the lines; no chosen line is blank,
\* begins with "#" or keeps fewer than 5 characters when cleaned, so there
\* are at most as many segments as lines that are neither blank nor
\* comments.  The lines #EXTM3U, seg001.ts, seg002.ts served at
\* https://cdn.example/live/index.m3u8 give
\* https://cdn.example/live/seg001.ts then https://cdn.example/live/seg002.ts.
\* When parseM3U8 fails before its loop it returns no segment.
C14_SegmentsFollowLines ==
  call.fn = "parseM3U8" /\ call.ret # <<>> =>
    LET body == call.arg.body
        segments == call.ret[1]
        URLOfLine(i) == resolveURL(call.arg.m3u8URL, cleanString(TrimSpace(body[i])))
    IN /\ call.ret[2] = "error" => segments = <<>>
       /\ call.ret[2] = "nil" =>
            /\ \E chosen \in SUBSET (1..Len(body)) :
                 /\ Len(segments) = Cardinality(chosen)
                 /\ \A k \in 1..Len(segments) : segments[k] = URLOfLine(Ascending(chosen)[k])
                 /\ \A i \in chosen :
                      /\ ~IsBlank(body[i]) /\ ~BeginsWithHash(body[i])
                      /\ CleanLength(body[i]) >= 5
            /\ Len(segments) <= Cardinality({i \in 1..Len(body) :
                                               ~IsBlank(body[i]) /\ ~BeginsWithHash(body[i])})
            /\ body = <<ExtM3U, Seg001, Seg002>> => segments = <<CdnSeg001URL, CdnSeg002URL>>

\* parseM3U8 has returned the two segment URLs of the body #EXTM3U,
\* seg001.ts, seg002.ts.
C14_Witness ==
  /\ call.fn = "parseM3U8"
  /\ call.arg.body = <<ExtM3U, Seg001, Seg002>>
  /\ call.ret = << <<CdnSeg001URL, CdnSeg002URL>>, "nil">>

\* The first position of x in the list s.
FirstPos(s, x) == CHOOSE i \in 1..Len(s) : s[i] = x /\ \A j \in 1..(i - 1) : s[j] # x

\* The list holds no element twice, and its elements come in the order of
\* their first positions from position from on in the playlist.
InPlaylistOrder(list, segments, from) ==
  \A a, b \in 1..Len(list) :
    a < b => /\ list[a] # list[b]
             /\ FirstPos(SubSeq(segments, from, Len(segments)), list[a])
                  < FirstPos(SubSeq(segments, from, Len(segments)), list[b])

C16_FirstPlaylistWins ==
  [][ /\ \A c \in Slots :
           CycleStarts(c) =>
             /\ referer = NoHeader => referer' = extractBaseURL(cyc'[c].stream)
             /\ origin = NoHeader => origin' = extractBaseURL(cyc'[c].stream)
      /\ referer # NoHeader => referer' = referer
      /\ origin # NoHeader => origin' = origin ]_vars

\* The same for the cycles of single-pass mode alone, which WarmM3U8 runs.
C16_WarmM3U8FirstPlaylistWins ==
  [][ /\ \A c \in Slots :
           CycleStarts(c) /\ ~daemonMode =>
             /\ referer = NoHeader => referer' = extractBaseURL(cyc'[c].stream)
             /\ origin = NoHeader => origin' = extractBaseURL(cyc'[c].stream)
      /\ referer # NoHeader => referer' = referer
      /\ origin # NoHeader => origin' = origin ]_vars

\* Slot c is inside a call of warmSegments.
InWarmSegments(c) == cyc[c].pc \in {"send", "collect"}

\* C17: a call of warmSegments with N >= 1 workers and M >= 0 URLs ends,
\* given fair scheduling and fetches that end.  The producer is never
\* blocked: while it seeds it can send the next URL or close the queue.  A
\* worker holding an outcome can always send it.  The results channel is
\* closed only when every one of the N workers has left, with the queue
\* closed and empty; and the call returns only then, with all M outcomes
\* collected.
C17_WarmSegmentsTerminates ==
  /\ \A c \in Slots : InWarmSegments(c) ~> Returned(c)
  /\ [](\A c \in Slots : AtPc(c, "send") => ENABLED (SendJob(c) \/ CloseJobs(c)))
  /\ [](\A c \in Slots : \A k \in Workers :
          pool[c].w[k].pc = "send" => ENABLED WorkerSend(c, k))
  /\ [](\A c \in Slots : InWarmSegments(c) => pool[c].wg >= 0 /\ maxWorkers >= 1)
  /\ [][ \A c \in Slots :
           /\ ~pool[c].resultsClosed /\ pool'[c].resultsClosed =>
                /\ pool[c].jobsClosed /\ pool[c].jobs = <<>>
                /\ \A k \in Workers : k <= maxWorkers <=> pool[c].w[k].pc = "done"
           /\ InWarmSegments(c) /\ Returned(c)' =>
                /\ pool[c].resultsClosed /\ pool[c].results = <<>>
                /\ \A k \in Workers : k <= maxWorkers <=> pool[c].w[k].pc = "done"
                /\ Len(cyc'[c].allResults) = Len(cyc[c].newSegments) ]_vars

\* A call with two workers and no URL at all has returned.
C17_Witness ==
  /\ ~daemonMode /\ maxWorkers = 2 /\ AtPc(1, "fold")
  /\ cyc[1].newSegments = <<>> /\ cyc[1].allResults = <<>>

\* The threads of the daemon.
Threads ==
  {MainThread} \cup {LoopThread(i) : i \in TickLoops}
    \cup {CycleThread(c) : c \in Slots}
    \cup {WorkerThread(c, k) : c \in Slots, k \in Workers}

\* Where a thread is in its code.
PcOf(thread) ==
  CASE thread[1] = "main" -> rd.pc
    [] thread[1] = "loop" -> loops[thread[2]]
    [] thread[1] = "cycle" -> cyc[thread[2]].pc
    [] thread[1] = "worker" -> pool[thread[2]].w[thread[3]].pc

\* The thread has sent a request and waits for its response: the playlist
\* request of parseM3U8 or the segment request of warmSegment.
Requesting(thread) ==
  \/ thread[1] = "cycle" /\ PcOf(thread) = "parse"
  \/ thread[1] = "worker" /\ PcOf(thread) = "fetch"

\* The thread is between one map read/update and the Unlock that follows it.
AtLedgerUpdate(thread) ==
  \/ thread[1] = "cycle" /\ PcOf(thread) \in {"filter", "rewarm"}
  \/ thread[1] = "worker" /\ PcOf(thread) = "stats"

AtFlagUpdate(thread) ==
  \/ thread[1] = "main" /\ PcOf(thread) = "schedule"
  \/ thread[1] = "loop" /\ PcOf(thread) = "tick"
  \/ thread[1] = "cycle" /\ PcOf(thread) = "end"

\* C18: in every reachable state the thread that holds h.mu, and the thread
\* that holds h.streamMu, has no playlist or segment request under way and
\* does not hold the other mutex; it took the mutex for one read/update of
\* the map (the ledger or h.cacheStats for h.mu, the activity flags for
\* h.streamMu), and the first step it takes after the Lock is the Unlock.
C18_LocksNeverSpanRequests ==
  /\ [](\A thread \in Threads :
          /\ mu = thread => /\ ~Requesting(thread)
                            /\ streamMu # thread
                            /\ AtLedgerUpdate(thread)
          /\ streamMu = thread => /\ ~Requesting(thread)
                                  /\ mu # thread
                                  /\ AtFlagUpdate(thread))
  /\ [][\A thread \in Threads :
          /\ (mu = thread /\ PcOf(thread)' # PcOf(thread)) => mu' = Free
          /\ (streamMu = thread /\ PcOf(thread)' # PcOf(thread)) => streamMu' = Free]_vars

\* Both mutexes are held, by two threads, while a third thread has a segment
\* request under way: h.mu by a cycle in its filter, h.streamMu by a
\* warmStreamContinuously loop in scheduleStreamWarm.
C18_Witness ==
  /\ \E c \in Slots : mu = CycleThread(c) /\ AtPc(c, "filter")
  /\ \E i \in TickLoops : streamMu = LoopThread(i)
  /\ \E c \in Slots, k \in Workers : Requesting(WorkerThread(c, k))

\* C19: the dedup ledger only grows.  No step removes an entry, and a step
\* that writes an entry writes the current time, which is not earlier than
\* the time it replaces.
C19_LedgerOnlyGrows ==
  [][ \A s \in Segs :
        /\ processedURLs[s] # Never => processedURLs'[s] # Never
        /\ processedURLs'[s] # processedURLs[s] =>
             /\ processedURLs'[s] = now
             /\ processedURLs[s] # Never => processedURLs'[s] >= processedURLs[s] ]_vars

\* s2 carries the stamp of time 0, given with or after the first stamp of
\* s1, and s1 carries a stamp written past the TTL: its entry was replaced.
C19_Witness ==
  /\ daemonMode /\ rewarmLast = 0
  /\ processedURLs["s2"] = 0
  /\ processedURLs["s1"] = now /\ now > processedTTL

\* The step belongs to the warmSegments call of slot c or to one of its
\* workers.
IsFetchStep(c) == pool'[c] # pool[c] /\ cyc'[c].pc \in {"send", "collect", "summary"}

\* C20: every URL a daemon cycle hands to warmSegments was stamped by that
\* cycle before the call: the filter stamps with its own time what it
\* selects and the rewarm step what it adds, the fetch set is final after
\* them, and when warmSegments is called every URL of the fetch set has an
\* entry.  No step of the fetch, completed or failed, and no later step of
\* the cycle changes the ledger.
C20_StampedBeforeFetch ==
  /\ [](\A c \in Slots :
          daemonMode /\ (pool[c] # NoPool \/ cyc[c].reqs # <<>>) =>
            \A u \in Range(cyc[c].newSegments) :
              processedURLs[u] # Never /\ processedURLs[u] <= now)
  /\ [][ \A c \in Slots :
           /\ Leaves(c, "filter") =>
                \A u \in Range(cyc'[c].newSegments) : processedURLs'[u] = now
           /\ Leaves(c, "rewarm") =>
                \A u \in Range(cyc'[c].newSegments) \ Range(cyc[c].newSegments) :
                  processedURLs'[u] = now
           /\ daemonMode /\ PastRewarm(c) /\ cyc'[c].pc # "none" =>
                cyc'[c].newSegments = cyc[c].newSegments
           /\ daemonMode /\ cyc[c].reqs = <<>> /\ cyc'[c].reqs # <<>> =>
                \A u \in Range(cyc[c].newSegments) : processedURLs[u] # Never
           /\ IsFetchStep(c) \/ (PastRewarm(c) /\ cyc'[c] # cyc[c]) =>
                UNCHANGED processedURLs ]_vars

\* A daemon cycle has collected a failed outcome for a URL whose stamp is
\* older than the current time.
C20_Witness ==
  \E c \in Slots :
    /\ daemonMode /\ AtPc(c, "summary")
    /\ \E i \in 1..Len(cyc[c].allResults) :
         /\ cyc[c].allResults[i].Error = "failed"
         /\ processedURLs[cyc[c].allResults[i].URL] < now

\* Cycle c is inside the filter loop or the rewarm block of warmStreamOnce,
\* the only code that reads or writes h.processedURLs.
InLedgerSection(c) == mu = CycleThread(c) /\ cyc[c].pc \in {"filter", "rewarm"}

\* A call of scheduleStreamWarm returns without starting a cycle.
IsSkippedStep ==
  \E p \in Playlists : IsScheduleStep(p) /\ p \in streamActive

\* The ledger is read and written only by a warm cycle whose playlist has its
\* flag set; the single pass touches neither the ledger nor the flags; a
\* skipped call of scheduleStreamWarm changes neither and keeps off the
\* ledger.
LedgerOnlyInActiveCycle ==
  /\ [](\A c \in Slots :
          InLedgerSection(c) => daemonMode /\ cyc[c].stream \in streamActive)
  /\ [](~daemonMode => /\ streamMu = Free /\ streamActive = {}
                       /\ \A c \in Slots : mu # CycleThread(c))
  /\ [][ /\ processedURLs' # processedURLs
              => \E c \in Slots : /\ InLedgerSection(c) /\ mu' = Free
                                  /\ cyc[c].stream \in streamActive'
         /\ ~daemonMode => UNCHANGED <<processedURLs, streamActive>>
         /\ IsSkippedStep
              => /\ UNCHANGED <<processedURLs, streamActive, mu>>
                 /\ mu # MainThread
                 /\ \A i \in TickLoops : mu # LoopThread(i) ]_vars

\* C21 as claimed: besides LedgerOnlyInActiveCycle, a skipped call of
\* scheduleStreamWarm does not read the activity flags either, so it returns
\* without having been inside the streamMu section that reads them.
C21_SkippedTickReadsNoFlag ==
  /\ LedgerOnlyInActiveCycle
  /\ [][IsSkippedStep => streamMu = Free]_vars

\* C21, amended: every read or write of the dedup ledger is made by a warm
\* cycle for a playlist whose activity flag is set at that moment; the single
\* pass (WarmM3U8) never reads or modifies the ledger or the activity flags;
\* a skipped call of scheduleStreamWarm reads the flag of its playlist under
\* h.streamMu, which is how it comes to be skipped, and modifies neither the
\* flags nor the ledger, which it does not read.
C21_LedgerAccessNeedsActiveFlag ==
  /\ LedgerOnlyInActiveCycle
  /\ [][IsSkippedStep
          => /\ streamMu \in {MainThread} \cup {LoopThread(i) : i \in TickLoops}
             /\ streamMu' = Free]_vars

\* A cycle is inside its filter loop with the flag of its playlist set and
\* an entry already in the ledger, while a tick for a playlist that is being
\* warmed is inside beginStreamProcessing and will be skipped.
C21_Witness ==
  /\ \E c \in Slots : InLedgerSection(c) /\ cyc[c].stream \in streamActive
  /\ \E i \in TickLoops : streamMu = LoopThread(i) /\ m3u8URLs[i] \in streamActive
  /\ \E s \in Segs : processedURLs[s] # Never

\* WarmM3U8 returns its summary: the step from the end of warmSegments back
\* to runOnceMode.
IsSummaryStep == ~daemonMode /\ cyc[1].pc = "fold" /\ cyc'[1].pc # "fold"

IsFailure(r) == r.Error # "nil"

IsCleanHit(r) == r.Error = "nil" /\ r.Hit

\* How many outcomes of the list are failures.
RECURSIVE FailureCount(_)
FailureCount(results) ==
  IF results = <<>> THEN 0
  ELSE (IF IsFailure(Head(results)) THEN 1 ELSE 0) + FailureCount(Tail(results))

\* How many outcomes of the list have no failure cause and are hits.
RECURSIVE CleanHitCount(_)
CleanHitCount(results) ==
  IF results = <<>> THEN 0
  ELSE (IF IsCleanHit(Head(results)) THEN 1 ELSE 0) + CleanHitCount(Tail(results))

\* C22: in the summary WarmM3U8 returns, TotalFiles is the number of parsed
\* segments and the number of entries of Details, CachedFiles is the number
\* of outcomes without a failure cause that are hits, Errors has one entry
\* per failed outcome, in the order of the outcomes, and no failed outcome
\* is counted as a hit: CachedFiles + len(Errors) <= TotalFiles.
C22_SummaryCountsOutcomes ==
  [][IsSummaryStep =>
       LET result == once'.result
           segments == cyc[1].segments
           results == cyc[1].allResults
       IN  /\ result.err = "nil"
           /\ result.Details = results
           /\ result.TotalFiles = Len(segments)
           /\ result.TotalFiles = Len(result.Details)
           /\ result.CachedFiles = CleanHitCount(results)
           /\ Len(result.Errors) = FailureCount(results)
           /\ \A i \in 1..Len(results) :
                IsFailure(results[i]) =>
                  /\ ~IsCleanHit(results[i])
                  /\ result.Errors[FailureCount(SubSeq(results, 1, i))]
                       = results[i].Error
           /\ result.CachedFiles + Len(result.Errors) <= result.TotalFiles]_vars

\* WarmM3U8 has returned the summary of a playlist of two segments of which
\* one was answered from the cache and the other failed.
C22_Witness ==
  /\ ~daemonMode /\ once.i > 1
  /\ once.result.err = "nil"
  /\ once.result.TotalFiles = 2
  /\ once.result.CachedFiles = 1
  /\ Len(once.result.Errors) = 1
  /\ Len(once.result.Details) = 2

\* Cycle d selects segment s as new in this step.
SelectsAsNew(d, s) == Count(cyc'[d].newSegments, s) > Count(cyc[d].newSegments, s)

\* Cycle c runs and has selected segment s as new.
HasSelected(c, s) == cyc[c].pc # "none" /\ s \in Range(cyc[c].newSegments)

\* Cycles c and d run at the same time, for two different playlists.
Concurrent(c, d) ==
  /\ c # d /\ cyc[c].pc # "none" /\ cyc[d].pc # "none"
  /\ cyc[c].stream # cyc[d].stream

\* C23: with rewarm-last disabled and a positive TTL, of two cycles that run
\* at the same time for two different playlists listing the same segment, at
\* most one selects the segment as new within one TTL window.  The cycle
\* that selects a segment stamps it in the same step, holding h.mu from its
\* test of the ledger on; when it does so while the other cycle has selected
\* the segment too, the other's stamp is more than the TTL old, so two
\* running cycles have both selected a segment only after a whole TTL.
C23_OneSelectionPerWindow ==
  /\ [](rewarmLast = 0 /\ processedTTL > 0)
  /\ [][\A d \in Slots, s \in Segs :
          SelectsAsNew(d, s) =>
            /\ mu = CycleThread(d) /\ mu' = mu
            /\ processedURLs'[s] = now
            /\ processedURLs[s] # Never => now - processedURLs[s] > processedTTL
            /\ \A c \in Slots :
                 Concurrent(c, d) /\ HasSelected(c, s)
                   => /\ processedURLs[s] # Never
                      /\ now - processedURLs[s] > processedTTL]_vars
  /\ [](\A c, d \in Slots, s \in Segs :
          Concurrent(c, d) /\ HasSelected(c, s) /\ HasSelected(d, s)
            => now > processedTTL /\ processedURLs[s] > processedTTL)

\* Two cycles for two different playlists run at the same time; both
\* playlists list the same segment, one cycle has selected it and its
\* request is under way, and the other cycle has tested it inside the TTL
\* window and left its filter loop with nothing selected.
C23_Witness ==
  \E c, d \in Slots, s \in Segs :
    /\ Concurrent(c, d)
    /\ s \in Range(cyc[c].segments) /\ s \in Range(cyc[d].segments)
    /\ HasSelected(c, s)
    /\ \E k \in Workers : pool[c].w[k].pc = "fetch" /\ pool[c].w[k].url = s
    /\ cyc[d].pc = "check" /\ cyc[d].newSegments = <<>>
    /\ now - processedURLs[s] <= processedTTL

====
